---- MODULE Spec2Model ----
(***************************************************************************)
(* Verification model of the Terpedia functional-flavors chat assistant:   *)
(*   - the browser widget TerpediaChatWidget (src/chat-widget.js): index   *)
(*     loading, retrieval, delegated generation with endpoint fallback,    *)
(*     and the message list shown to the user;                             *)
(*   - the build-time chunker chunkText (src/scripts/build-rag-sqlite.js,  *)
(*     identical in the JSON index builder).                               *)
(* Strings that the code only moves around are sequences of tokens; the    *)
(* text handed to the chunker is a sequence of one-character strings.      *)
(***************************************************************************)
EXTENDS Integers, Sequences, FiniteSets, TLC

VARIABLES
    loadPc,        \* position of init()/loadDatabase(): the await it is suspended at
    sqlite3,       \* this.sqlite3 is set
    db,            \* this.db
    initialized,   \* this.initialized
    loadFailed,    \* loadDatabase went through its catch block
    inputDisabled, \* disabled attribute of #chatInput and #chatSendBtn
    messages,      \* this.messages, when it is an array
    messagesIsArray, \* this.messages is an array (JSON.parse may have stored another value)
    dom,           \* children of #chatMessages added by addMessage
    nextId,        \* source of fresh message ids
    stored,        \* localStorage entry terpedia_chat_history
    reqs,          \* the sendMessage invocations, in order of issue
    cPc,           \* chunker: "input" before the call, "returned" after
    cText,         \* chunker: argument text
    cSize,         \* chunker: argument chunkSize
    cResult,       \* chunker: returned chunk list
    sPc,           \* scorer: "input" before the call, "returned" or "threw" after
    sQuery,        \* scorer: argument query
    sContent,      \* scorer: argument content (siteContent)
    sScored,       \* scorer: scoredChunks of findRelevantContext after the sort
    sContext,      \* scorer: the string findRelevantContext returned
    sRows,         \* scorer: the rows findWithKeywords returned for the same query
    bKind,         \* build: which build script runs ("sqlite": build-rag-sqlite.js, "json": build-rag.js)
    bPc,           \* build: position of build()
    bSite,         \* build: the HTML files on disk and the directory compounds/
    Database,      \* build: what line 7 of build-rag-sqlite.js binds the name Database to
    bCalls,        \* build: the processFile calls of the running loop still to make
    bContent,      \* build: this.content
    bChunks,       \* build: this.chunks
    dbFile,        \* build: the file rag.sqlite at this.dbPath
    jsonFile,      \* build: the file rag-index.json
    rPc,           \* retrieval: position of step 1 of generateResponse
    rInit,         \* retrieval: this.initialized
    rDb,           \* retrieval: this.db
    rQuery,        \* retrieval: userMessage
    rEx,           \* retrieval: what db.exec does during the call
    rChunks,       \* retrieval: relevantChunks
    rThrew,        \* retrieval: findRelevantChunks threw
    rContextText   \* retrieval: contextText

widgetVars == <<loadPc, sqlite3, db, initialized, loadFailed, inputDisabled,
                messages, messagesIsArray, dom, nextId, stored, reqs>>
chunkVars == <<cPc, cText, cSize, cResult>>
scoreVars == <<sPc, sQuery, sContent, sScored, sContext, sRows>>
buildVars == <<bKind, bPc, bSite, Database, bCalls, bContent, bChunks, dbFile, jsonFile>>
retrieveVars == <<rPc, rInit, rDb, rQuery, rEx, rChunks, rThrew, rContextText>>
offlineVars == <<chunkVars, scoreVars, buildVars, retrieveVars>>
otherThanChunk == <<widgetVars, scoreVars, buildVars, retrieveVars>>
otherThanScore == <<widgetVars, chunkVars, buildVars, retrieveVars>>
otherThanBuild == <<widgetVars, chunkVars, scoreVars, retrieveVars>>
otherThanRetrieve == <<widgetVars, chunkVars, scoreVars, buildVars>>
vars == <<loadPc, sqlite3, db, initialized, loadFailed, inputDisabled,
          messages, messagesIsArray, dom, nextId, stored, reqs, cPc, cText, cSize, cResult,
          sPc, sQuery, sContent, sScored, sContext, sRows,
          bKind, bPc, bSite, Database, bCalls, bContent, bChunks, dbFile, jsonFile,
          rPc, rInit, rDb, rQuery, rEx, rChunks, rThrew, rContextText>>

----------------------------------------------------------------------------
(* Bounds of the model *)

MaxRequests == 2

----------------------------------------------------------------------------
(* JavaScript values that flow through the answer path *)

Str(text) == [t |-> "str", text |-> text]

Undefined == [t |-> "undef", text |-> <<>>]

Truthy(v) == v.t = "str" /\ v.text # <<>>

IsEmptyString(v) == v.t = "str" /\ v.text = <<>>

Min(a, b) == IF a < b THEN a ELSE b

----------------------------------------------------------------------------
(* The index artifact rag.sqlite served next to the page, and the queries   *)
(* a user types.  A chunk_text and a query are sequences of word tokens    *)
(* (the whitespace-separated words of the string).                          *)

NullDb == [open |-> FALSE, rows |-> <<>>]

IndexRows ==
    << [id |-> 1, page_title |-> "Main Article", section_heading |-> "",
        chunk_text |-> <<"terpenes", "are", "aromatic", "compounds">>, word_count |-> 4],
       [id |-> 2, page_title |-> "Main Article", section_heading |-> "Safety",
        chunk_text |-> <<"flavor", "of", "terpene">>, word_count |-> 3],
       [id |-> 3, page_title |-> "About Terpedia", section_heading |-> "",
        chunk_text |-> <<"cinnamaldehyde", "is", "spicy">>, word_count |-> 3] >>

Queries ==
    { <<"what", "is", "flavor">>,
      <<"xyzzyplugh", "nonsense", "query">> }

\* Orders in which the database may hand back rows that its ORDER BY does
\* not distinguish (FTS5 rank is computed by SQLite, not by this code).
RowOrders ==
    { o \in [1..Len(IndexRows) -> 1..Len(IndexRows)] :
        \A i, j \in 1..Len(IndexRows) : i # j => o[i] # o[j] }

\* What db.exec does on one findRelevantChunks call: whether each statement
\* raises, and the order of rows the statement leaves unordered.
DbExecs == [fts : {"rows", "error"}, kw : {"rows", "error"}, order : RowOrders]

\* Words that differ from their lower-case form
LowerPairs == { <<"Flavor", "flavor">>, <<"Terpene", "terpene">> }

\* String.prototype.toLowerCase on one word
LowerWord(w) ==
    IF \E p \in LowerPairs : p[1] = w
    THEN (CHOOSE p \in LowerPairs : p[1] = w)[2]
    ELSE w

\* String.prototype.toLowerCase on a text
toLowerCase(text) == [i \in 1..Len(text) |-> LowerWord(text[i])]

\* faulty variant: every token of the query is searched for
QueryWords_KeepsShort(query) == query

\* w.length > 2 filter of query.split(/\s+/)
QueryWords(query) == SelectSeq(query, LAMBDA w : Len(w) > 2)

\* chunk_text LIKE '%' || w || '%' : w occurs inside some word of the text
SubstringPairs ==
    { <<"terpene", "terpenes">>, <<"us", "^us">>, <<"like", "(like">> }

\* (LIKE does not distinguish the case of ASCII letters)
Like(text, w) ==
    \E i \in 1..Len(text) :
        LowerWord(text[i]) = w \/ <<w, LowerWord(text[i])>> \in SubstringPairs

\* chunks_fts MATCH 'w1 OR w2 ...' : some query word is a token of the text
\* (the FTS5 tokenizer folds the case of the text and of the query)
FtsMatch(text, words) ==
    \E i \in 1..Len(text) : \E k \in 1..Len(words) :
        LowerWord(text[i]) = LowerWord(words[k])

Limit(seq, k) == SubSeq(seq, 1, Min(k, Len(seq)))

RECURSIVE InsertByWordCount(_, _)
InsertByWordCount(sorted, row) ==
    IF sorted = <<>> THEN <<row>>
    ELSE IF row.word_count > sorted[1].word_count THEN <<row>> \o sorted
    ELSE <<sorted[1]>> \o InsertByWordCount(Tail(sorted), row)

RECURSIVE OrderByWordCountDesc(_)
OrderByWordCountDesc(rows) ==
    IF rows = <<>> THEN <<>>
    ELSE InsertByWordCount(OrderByWordCountDesc(SubSeq(rows, 1, Len(rows) - 1)),
                           rows[Len(rows)])

InOrder(rows, order) == [i \in 1..Len(rows) |-> rows[order[i]]]

\* findWithFTS5: the rows or "throw"
findWithFTS5(database, query, topK, ex) ==
    LET queryWords == QueryWords(query)
        ranked == SelectSeq(InOrder(database.rows, ex.order),
                            LAMBDA c : FtsMatch(c.chunk_text, queryWords))
    IN  IF ex.fts = "error" \/ ~database.open
        THEN [threw |-> TRUE, rows |-> <<>>]
        ELSE [threw |-> FALSE, rows |-> Limit(ranked, topK)]

\* findWithKeywords: the rows or "throw"
findWithKeywords(database, query, topK, ex) ==
    LET queryWords == QueryWords(toLowerCase(query))
        hits == SelectSeq(InOrder(database.rows, ex.order),
                          LAMBDA c : \E k \in 1..Len(queryWords) :
                                        Like(c.chunk_text, queryWords[k]))
    IN  IF queryWords = <<>> THEN [threw |-> FALSE, rows |-> <<>>]
        ELSE IF ex.kw = "error" \/ ~database.open
        THEN [threw |-> TRUE, rows |-> <<>>]
        ELSE [threw |-> FALSE, rows |-> Limit(OrderByWordCountDesc(hits), topK)]

Returns(rows) == [threw |-> FALSE, rows |-> rows]

\* faulty variant: the keyword search runs outside any try block
findRelevantChunksTry_NoOuterCatch(isInit, database, query, topK, ex) ==
    IF ~isInit \/ ~database.open THEN Returns(<<>>)
    ELSE LET f == findWithFTS5(database, query, topK, ex)
         IN  IF ~f.threw THEN f ELSE findWithKeywords(database, query, topK, ex)

\* findRelevantChunks with its two try blocks: what it returns, or that it
\* threw.  The inner catch runs findWithKeywords, whose own throw reaches the
\* outer catch, which returns [].
findRelevantChunksTry(isInit, database, query, topK, ex) ==
    IF ~isInit \/ ~database.open THEN Returns(<<>>)
    ELSE LET f == findWithFTS5(database, query, topK, ex)
             k == findWithKeywords(database, query, topK, ex)
         IN  IF ~f.threw THEN f
             ELSE IF ~k.threw THEN k
             ELSE Returns(<<>>)

\* findRelevantChunks(query, topK) in a widget whose fields are isInit, database
findRelevantChunks(isInit, database, query, topK, ex) ==
    findRelevantChunksTry(isInit, database, query, topK, ex).rows

TopK == 5

ExcerptMax == 1500

ContextSeparator == "\n\n---\n\n"

ContextJoin == "\n\n---\n\n"

\* a chunk_text as the string it is: its words with single spaces between
RECURSIVE TextOf(_)
TextOf(tokens) ==
    IF tokens = <<>> THEN ""
    ELSE IF Len(tokens) = 1 THEN tokens[1]
    ELSE tokens[1] \o " " \o TextOf(Tail(tokens))

\* `[Source: ${c.page_title}${c.section_heading ? ` - ${c.section_heading}` : ''}]`
SourceLabel(c) ==
    IF c.page_title = "" THEN ""
    ELSE "[Source: " \o c.page_title
         \o (IF c.section_heading = "" THEN "" ELSE " - " \o c.section_heading)
         \o "]"

\* generateResponse: contextText of the retrieved chunks
RECURSIVE ContextText(_)
ContextText(relevantChunks) ==
    IF relevantChunks = <<>> THEN ""
    ELSE LET c == relevantChunks[1]
             entry == TextOf(c.chunk_text) \o "\n" \o SourceLabel(c)
         IN  IF Len(relevantChunks) = 1 THEN entry
             ELSE entry \o ContextJoin \o ContextText(Tail(relevantChunks))

\* a word of n letters c
RECURSIVE Word(_, _)
Word(c, n) ==
    IF n = 0 THEN ""
    ELSE IF n % 2 = 1 THEN c \o Word(c, n - 1)
    ELSE LET half == Word(c, n \div 2) IN half \o half

\* letters of which the long words of the index are made
RunChars == {"a", "b", "c", "d", "e", "f"}

\* the characters of the words of the index and of the separator
Spelling ==
    { <<"terpenes", <<"t", "e", "r", "p", "e", "n", "e", "s">>>>,
      <<"are", <<"a", "r", "e">>>>,
      <<"aromatic", <<"a", "r", "o", "m", "a", "t", "i", "c">>>>,
      <<"compounds", <<"c", "o", "m", "p", "o", "u", "n", "d", "s">>>>,
      <<"flavor", <<"f", "l", "a", "v", "o", "r">>>>,
      <<"of", <<"o", "f">>>>,
      <<"terpene", <<"t", "e", "r", "p", "e", "n", "e">>>>,
      <<"cinnamaldehyde", <<"c", "i", "n", "n", "a", "m", "a", "l", "d", "e", "h", "y", "d", "e">>>>,
      <<"is", <<"i", "s">>>>,
      <<"spicy", <<"s", "p", "i", "c", "y">>>>,
      <<"\n\n---\n\n", <<"\n", "\n", "-", "-", "-", "\n", "\n">>>> }

\* the characters of a word of the index or of the separator, in order
Spell(w) == (CHOOSE p \in Spelling : p[1] = w)[2]

\* the string made of the given characters
RECURSIVE Concat(_)
Concat(chars) ==
    IF chars = <<>> THEN "" ELSE chars[1] \o Concat(Tail(chars))

\* w.substring(0, n) of one piece
Prefix(w, n) ==
    IF n >= Len(w) THEN w
    ELSE IF \E c \in RunChars : w = Word(c, Len(w))
    THEN Word(CHOOSE c \in RunChars : w = Word(c, Len(w)), n)
    ELSE Concat(SubSeq(Spell(w), 1, n))

\* the pieces of a chunk_text: its words and the spaces between them
RECURSIVE TextPieces(_)
TextPieces(tokens) ==
    IF tokens = <<>> THEN <<>>
    ELSE IF Len(tokens) = 1 THEN <<tokens[1]>>
    ELSE <<tokens[1], " ">> \o TextPieces(Tail(tokens))

\* topChunks.map(c => c.chunk_text).join('\n\n---\n\n'), as the pieces whose
\* concatenation is the string
RECURSIVE JoinTexts(_)
JoinTexts(chunks) ==
    IF chunks = <<>> THEN <<>>
    ELSE IF Len(chunks) = 1 THEN TextPieces(chunks[1].chunk_text)
    ELSE TextPieces(chunks[1].chunk_text) \o <<ContextSeparator>>
         \o JoinTexts(Tail(chunks))

\* .length of a text given by its pieces
RECURSIVE CharLen(_)
CharLen(pieces) ==
    IF pieces = <<>> THEN 0 ELSE Len(pieces[1]) + CharLen(Tail(pieces))

\* .substring(0, n) of a text given by its pieces, as a string: the piece
\* the n-th character falls in is cut
RECURSIVE Substring(_, _)
Substring(pieces, n) ==
    IF pieces = <<>> \/ n <= 0 THEN ""
    ELSE IF Len(pieces[1]) <= n
    THEN pieces[1] \o Substring(Tail(pieces), n - Len(pieces[1]))
    ELSE Prefix(pieces[1], n)

RECURSIVE Sources(_, _)
Sources(chunks, seen) ==
    IF chunks = <<>> THEN <<>>
    ELSE IF chunks[1].page_title = "" \/ chunks[1].page_title \in seen
         THEN Sources(Tail(chunks), seen)
         ELSE <<chunks[1].page_title>>
              \o Sources(Tail(chunks), seen \cup {chunks[1].page_title})

\* sources.join(', ')
RECURSIVE JoinSources(_)
JoinSources(sources) ==
    IF sources = <<>> THEN ""
    ELSE IF Len(sources) = 1 THEN sources[1]
    ELSE sources[1] \o ", " \o JoinSources(Tail(sources))

NoInfoMessage(query) ==
    Str(<<"I couldn't find specific information about">> \o query
        \o <<"in the site content. Try asking about functional flavors, compounds, FDA regulations, or safety information.">>)

generateContextualResponse(query, chunks) ==
    IF Len(chunks) = 0 THEN NoInfoMessage(query)
    ELSE LET topChunks == Limit(chunks, 3)
             sources == Sources(topChunks, {})
             sourceText == IF Len(sources) > 0
                           THEN "\n\n*Sources: " \o JoinSources(sources) \o "*"
                           ELSE ""
             combinedText == JoinTexts(topChunks)
             excerpt == Substring(combinedText, ExcerptMax)
         IN  Str(<<"Based on the site content, here's what I found:\n\n"
                   \o excerpt
                   \o (IF Len(excerpt) < CharLen(combinedText) THEN "..." ELSE "")
                   \o sourceText
                   \o "\n\nFor more complete information, check the relevant sections in the article or use the table of contents to navigate directly.">>)

----------------------------------------------------------------------------
(* callTerpediaAPI: endpoints and the bodies they may send *)

NumEndpoints == 3

\* The text an endpoint generates for a query
Reply(query) == <<"answer to">> \o query

ObjectBody(response, message, hasChoiceMessage, content) ==
    [kind |-> "object", response |-> response, message |-> message,
     choiceMessage |-> hasChoiceMessage, content |-> content, str |-> <<>>]

StringBody(text) ==
    [kind |-> "string", response |-> Undefined, message |-> Undefined,
     choiceMessage |-> FALSE, content |-> Undefined, str |-> text]

NullBody ==
    [kind |-> "null", response |-> Undefined, message |-> Undefined,
     choiceMessage |-> FALSE, content |-> Undefined, str |-> <<>>]

\* Parsed JSON bodies of a 200 response to the request for a query
ResponseBodies(query) ==
    { ObjectBody(Str(Reply(query)), Undefined, FALSE, Undefined),
      ObjectBody(Undefined, Str(Reply(query)), FALSE, Undefined),
      ObjectBody(Str(<<>>), Str(Reply(query)), FALSE, Undefined),
      ObjectBody(Undefined, Undefined, TRUE, Str(Reply(query))),
      ObjectBody(Undefined, Undefined, TRUE, Str(<<>>)),
      ObjectBody(Undefined, Undefined, TRUE, Undefined),
      ObjectBody(Undefined, Undefined, FALSE, Undefined),
      StringBody(Reply(query)),
      StringBody(<<>>),
      NullBody }

\* JSON.stringify(data) of a body none of the branches recognised
JsonStringify(data) == Str(<<"{", "}">>)

\* Lines 327-339: the value returned for a parsed body, or a TypeError
\* when data is null and data.response is evaluated
HandleResponseFormats(data) ==
    IF data.kind = "null" THEN [threw |-> TRUE, value |-> Undefined]
    ELSE IF Truthy(data.response) THEN [threw |-> FALSE, value |-> data.response]
    ELSE IF Truthy(data.message) THEN [threw |-> FALSE, value |-> data.message]
    ELSE IF data.choiceMessage THEN [threw |-> FALSE, value |-> data.content]
    ELSE IF data.kind = "string" THEN [threw |-> FALSE, value |-> Str(data.str)]
    ELSE [threw |-> FALSE, value |-> JsonStringify(data)]

\* message of the Error thrown after the endpoint loop; the text of
\* lastError.message is whatever the last failure reported
AllFailedError ==
    <<"All Terpedia API endpoints failed. Last error:", "lastError.message">>

\* message of the TypeError formatMessage raises on a content that is undefined
TypeErrorText == <<"Cannot read properties of undefined (reading 'replace')">>

ErrorMessage(errorText) ==
    Str(<<"I apologize, but I encountered an error:">> \o errorText
        \o <<"Please try again or browse the site using the navigation menu.">>)

LoadingText == Str(<<"Searching knowledge base...">>)

----------------------------------------------------------------------------
(* Message list and chat history *)

DomEntry(id, role, content, isLoading, req) ==
    [id |-> id, role |-> role, content |-> content, loading |-> isLoading, req |-> req]

removeMessage(d, messageId) == SelectSeq(d, LAMBDA e : e.id # messageId)

Absent == [kind |-> "absent", msgs |-> <<>>]

Unparseable == [kind |-> "corrupt", msgs |-> <<>>]

SavedList(msgs) == [kind |-> "list", msgs |-> msgs]

\* a stored string that parses to a value other than an array: an object,
\* a number, a string, true or null
NotAnArray == [kind |-> "other", msgs |-> <<>>]

HistoryTurns == 10

\* the turns a longer earlier session saved
EarlierSession ==
    [i \in 1..HistoryTurns |->
        [role |-> IF i % 2 = 1 THEN "user" ELSE "assistant",
         content |-> Str(<<"earlier turn", ToString(i)>>)]]

StoredValues == { Absent, Unparseable, NotAnArray, SavedList(EarlierSession) }

\* loadChatHistory: the new this.messages, when it is an array
loadChatHistory(msgs, item) ==
    IF item.kind = "list" THEN item.msgs
    ELSE IF item.kind = "other" THEN <<>>
    ELSE msgs

\* loadChatHistory: whether the new this.messages is an array; JSON.parse
\* of anything that parses is assigned as it is
loadChatHistoryLeavesArray(isArray, item) ==
    IF item.kind = "list" THEN TRUE
    ELSE IF item.kind = "other" THEN FALSE
    ELSE isArray

\* faulty variant: the whole message list is sent
LastTurns_Uncapped(msgs, n) == msgs

\* this.messages.slice(-10)
LastTurns(msgs, n) ==
    SubSeq(msgs, IF Len(msgs) > n THEN Len(msgs) - n + 1 ELSE 1, Len(msgs))

\* saveChatHistory: the new localStorage entry.  localStorage.setItem throws
\* when the quota is exceeded or storage is denied; the catch block logs a
\* warning and the entry stays as it was
saveChatHistory(item, msgs, setItemThrows) ==
    IF setItemThrows THEN item ELSE SavedList(msgs)

----------------------------------------------------------------------------
(* init() and loadDatabase() *)

WidgetInit ==
    /\ loadPc = "wasm"
    /\ sqlite3 = FALSE
    /\ db = NullDb
    /\ initialized = FALSE
    /\ loadFailed = FALSE
    /\ inputDisabled = TRUE
    /\ messages = <<>>
    /\ messagesIsArray = TRUE
    /\ dom = <<>>
    /\ nextId = 1
    /\ stored \in StoredValues
    /\ reqs = <<>>

ChunkIdle ==
    /\ cPc = "idle"
    /\ cText = <<>>
    /\ cSize = 0
    /\ cResult = <<>>

ScoreIdle ==
    /\ sPc = "idle"
    /\ sQuery = <<>>
    /\ sContent = [loaded |-> FALSE, chunks |-> <<>>]
    /\ sScored = <<>>
    /\ sContext = <<>>
    /\ sRows = <<>>

\* a file that is not there.  Of rag.sqlite: tables and indexes count the
\* CREATE TABLE and CREATE INDEX statements committed, fts tells whether
\* chunks_fts is missing ("none"), created ("empty") or filled ("populated").
\* Of rag-index.json: json tells whether the file holds no byte ("empty"),
\* the first bytes of the serialized index only ("partial") or all of it
\* ("index"); chunks are the chunks whose text the file holds so far.
NoFile == [exists |-> FALSE, build |-> "none", tables |-> 0, meta |-> 0,
           rows |-> <<>>, embeddings |-> {}, indexes |-> 0, fts |-> "none",
           json |-> "none", chunks |-> <<>>]

NoSite == [files |-> <<>>, compounds |-> [exists |-> FALSE, names |-> <<>>]]

BuildIdle ==
    /\ bKind = "none"
    /\ bPc = "idle"
    /\ bSite = NoSite
    /\ Database = "undefined"
    /\ bCalls = <<>>
    /\ bContent = <<>>
    /\ bChunks = <<>>
    /\ dbFile = NoFile
    /\ jsonFile = NoFile

RetrieveIdle ==
    /\ rPc = "idle"
    /\ rInit = FALSE
    /\ rDb = NullDb
    /\ rQuery = <<>>
    /\ rEx = [fts |-> "rows", kw |-> "rows", order |-> [i \in 1..Len(IndexRows) |-> i]]
    /\ rChunks = <<>>
    /\ rThrew = FALSE
    /\ rContextText = ""

Init == WidgetInit /\ ChunkIdle /\ ScoreIdle /\ BuildIdle /\ RetrieveIdle

\* faulty variant: the catch block marks the widget initialized, as the try block does
LoadDatabaseCatch_StaysInitialized ==
    /\ initialized' = TRUE
    /\ loadFailed' = TRUE
    /\ inputDisabled' = FALSE
    /\ loadPc' = "history"
    /\ UNCHANGED <<messages, messagesIsArray>>

\* catch block of loadDatabase; updateStatus enables the input, and the
\* rest of init() is queued behind the await
LoadDatabaseCatch ==
    /\ initialized' = FALSE
    /\ loadFailed' = TRUE
    /\ inputDisabled' = FALSE
    /\ loadPc' = "history"
    /\ UNCHANGED <<messages, messagesIsArray>>

\* await this.loadSQLiteWASM() resolves
WasmLoaded ==
    /\ loadPc = "wasm"
    /\ sqlite3' = TRUE
    /\ loadPc' = "fetch"
    /\ UNCHANGED <<db, initialized, loadFailed, inputDisabled, messages,
                   messagesIsArray, dom,
                   nextId, stored, reqs>>
    /\ UNCHANGED offlineVars

\* await this.loadSQLiteWASM() rejects
WasmFailed ==
    /\ loadPc = "wasm"
    /\ LoadDatabaseCatch
    /\ UNCHANGED <<sqlite3, db, dom, nextId, stored, reqs>>
    /\ UNCHANGED offlineVars

\* await fetch('rag.sqlite') resolves with response.ok
RagFetched ==
    /\ loadPc = "fetch"
    /\ loadPc' = "arrayBuffer"
    /\ UNCHANGED <<sqlite3, db, initialized, loadFailed, inputDisabled, messages,
                   messagesIsArray,
                   dom, nextId, stored, reqs>>
    /\ UNCHANGED offlineVars

\* await fetch('rag.sqlite') rejects, or resolves with a non-OK status
RagFetchFailed ==
    /\ loadPc = "fetch"
    /\ LoadDatabaseCatch
    /\ UNCHANGED <<sqlite3, db, dom, nextId, stored, reqs>>
    /\ UNCHANGED offlineVars

\* await response.arrayBuffer() resolves and the database opens
DatabaseOpened ==
    /\ loadPc = "arrayBuffer"
    /\ db' = [open |-> TRUE, rows |-> IndexRows]
    /\ initialized' = TRUE
    /\ inputDisabled' = FALSE
    /\ loadPc' = "history"
    /\ UNCHANGED <<messages, messagesIsArray>>
    /\ UNCHANGED <<sqlite3, loadFailed, dom, nextId, stored, reqs>>
    /\ UNCHANGED offlineVars

\* await response.arrayBuffer() rejects, or new sqlite3.oo1.DB throws
DatabaseOpenFailed ==
    /\ loadPc = "arrayBuffer"
    /\ LoadDatabaseCatch
    /\ UNCHANGED <<sqlite3, db, dom, nextId, stored, reqs>>
    /\ UNCHANGED offlineVars

\* init() after await this.loadDatabase(): this.loadChatHistory()
LoadChatHistory ==
    /\ loadPc = "history"
    /\ messages' = loadChatHistory(messages, stored)
    /\ messagesIsArray' = loadChatHistoryLeavesArray(messagesIsArray, stored)
    /\ loadPc' = "done"
    /\ UNCHANGED <<sqlite3, db, initialized, loadFailed, inputDisabled, dom, nextId,
                   stored, reqs>>
    /\ UNCHANGED offlineVars

\* faulty variant: the listeners run as soon as the input is enabled
UserEventMayRun_BeforeContinuation == ~inputDisabled

\* A click or keypress listener runs: the control is enabled, and the
\* continuation of init() queued by the settled await has run, since
\* promise reactions run before the next event is dispatched
UserEventMayRun == ~inputDisabled /\ loadPc # "history"

----------------------------------------------------------------------------
(* sendMessage(), generateResponse() and callTerpediaAPI() *)

Pending(r) == reqs[r].pc = "fetch"

\* faulty variant: the history is saved on the error path as well
SendMessageEnds_AlwaysSaves(r, gen, allFailed) ==
    LET rq == reqs[r]
        success == ~gen.threw /\ gen.value.t = "str"
        shown == IF success THEN gen.value
                 ELSE IF gen.threw THEN ErrorMessage(gen.value)
                 ELSE ErrorMessage(TypeErrorText)
    IN  /\ dom' = Append(removeMessage(dom, rq.loadingId),
                         DomEntry(nextId, "assistant", shown, FALSE, r))
        /\ nextId' = nextId + 1
        /\ messages' = Append(messages, [role |-> "assistant", content |-> shown])
        /\ \E setItemThrows \in BOOLEAN :
              /\ stored' = saveChatHistory(stored, messages', setItemThrows)
              /\ reqs' = [reqs EXCEPT ![r] =
                      [rq EXCEPT !.pc = "done",
                                 !.endpoint = 0,
                                 !.setItem = IF setItemThrows THEN "threw" ELSE "stored",
                                 !.allFailed = allFailed,
                                 !.result = IF gen.threw THEN "threw" ELSE "returned",
                                 !.answer = IF gen.threw THEN Str(gen.value) ELSE gen.value,
                                 !.ui = IF success THEN "success" ELSE "error"]]

\* The rest of sendMessage once generateResponse has returned gen.value
\* (gen.threw = FALSE) or thrown the error text gen.value (gen.threw = TRUE).
\* addMessage calls formatMessage first, which throws on a non-string.
\* allFailed tells whether the endpoint loop ran out of endpoints; the loop
\* variable is dead once callTerpediaAPI has returned or thrown.
SendMessageEnds(r, gen, allFailed) ==
    LET rq == reqs[r]
        success == ~gen.threw /\ gen.value.t = "str"
        shown == IF success THEN gen.value
                 ELSE IF gen.threw THEN ErrorMessage(gen.value)
                 ELSE ErrorMessage(TypeErrorText)
    IN  /\ dom' = Append(removeMessage(dom, rq.loadingId),
                         DomEntry(nextId, "assistant", shown, FALSE, r))
        /\ nextId' = nextId + 1
        /\ messages' = Append(messages, [role |-> "assistant", content |-> shown])
        /\ \E setItemThrows \in (IF success THEN BOOLEAN ELSE {FALSE}) :
              /\ stored' = IF success
                           THEN saveChatHistory(stored, messages', setItemThrows)
                           ELSE stored
              /\ reqs' = [reqs EXCEPT ![r] =
                      [rq EXCEPT !.pc = "done",
                                 !.endpoint = 0,
                                 !.setItem = IF ~success THEN "none"
                                             ELSE IF setItemThrows THEN "threw"
                                             ELSE "stored",
                                 !.allFailed = allFailed,
                                 !.result = IF gen.threw THEN "threw" ELSE "returned",
                                 !.answer = IF gen.threw THEN Str(gen.value) ELSE gen.value,
                                 !.ui = IF success THEN "success" ELSE "error"]]

\* faulty variant: the catch block rethrows without the local fallback
GenerateResponseCatch_Rethrows(r, errorText) ==
    SendMessageEnds(r, [threw |-> TRUE, value |-> errorText], TRUE)

\* catch block of generateResponse (lines 270-280)
GenerateResponseCatch(r, errorText) ==
    IF Len(reqs[r].chunks) > 0
    THEN SendMessageEnds(r, [threw |-> FALSE,
                             value |-> generateContextualResponse(reqs[r].query,
                                                                  reqs[r].chunks)],
                         TRUE)
    ELSE SendMessageEnds(r, [threw |-> TRUE, value |-> errorText], TRUE)

\* faulty variant: the first failure ends the loop
EndpointFailed_GivesUpEarly(r) == GenerateResponseCatch(r, AllFailedError)

\* catch block inside the endpoint loop (lines 340-345), and what follows
\* the loop when it was the last endpoint
EndpointFailed(r) ==
    IF reqs[r].endpoint < NumEndpoints
    THEN /\ reqs' = [reqs EXCEPT ![r].endpoint = @ + 1, ![r].pc = "fetch"]
         /\ UNCHANGED <<dom, nextId, messages, stored>>
    ELSE GenerateResponseCatch(r, AllFailedError)

\* sendMessage up to the first network await: user message, loading
\* placeholder, local retrieval, and the request to the first endpoint
\* When this.messages is not an array, the first addMessage appends the
\* user message to the page and throws at this.messages.push (line 542),
\* outside the try block: sendMessage rejects there.
SendMessage(query, ex) ==
    /\ UserEventMayRun
    /\ Len(reqs) < MaxRequests
    /\ IF messagesIsArray
       THEN /\ dom' = dom \o << DomEntry(nextId, "user", Str(query), FALSE, Len(reqs) + 1),
                                DomEntry(nextId + 1, "assistant", LoadingText, TRUE,
                                         Len(reqs) + 1) >>
            /\ nextId' = nextId + 2
            /\ messages' = Append(messages, [role |-> "user", content |-> Str(query)])
            /\ reqs' = Append(reqs,
                         [pc |-> "fetch", query |-> query, loadingId |-> nextId + 1,
                          chunks |-> IF initialized /\ db.open
                                     THEN findRelevantChunks(initialized, db, query, TopK, ex)
                                     ELSE <<>>,
                          history |-> LastTurns(messages', HistoryTurns),
                          endpoint |-> 1, setItem |-> "none", allFailed |-> FALSE,
                          result |-> "pending",
                          answer |-> Undefined, ui |-> "pending"])
       ELSE /\ dom' = Append(dom, DomEntry(nextId, "user", Str(query), FALSE, Len(reqs) + 1))
            /\ nextId' = nextId + 1
            /\ messages' = messages
            /\ reqs' = Append(reqs,
                         [pc |-> "threw", query |-> query, loadingId |-> 0,
                          chunks |-> <<>>, history |-> <<>>,
                          endpoint |-> 0, setItem |-> "none", allFailed |-> FALSE,
                          result |-> "none",
                          answer |-> Undefined, ui |-> "none"])
    /\ UNCHANGED <<loadPc, sqlite3, db, initialized, loadFailed, inputDisabled,
                   messagesIsArray, stored>>
    /\ UNCHANGED offlineVars

\* await fetch(endpoint) rejects or resolves with a non-OK status, or
\* await response.json() rejects
EndpointErrored(r) ==
    /\ reqs[r].pc = "fetch"
    /\ EndpointFailed(r)
    /\ UNCHANGED <<loadPc, sqlite3, db, initialized, loadFailed, inputDisabled,
                   messagesIsArray>>
    /\ UNCHANGED offlineVars

\* await fetch(endpoint) resolves with response.ok and await
\* response.json() resolves with data (nothing is written between the two)
EndpointAnswered(r, data) ==
    /\ reqs[r].pc = "fetch"
    /\ LET h == HandleResponseFormats(data)
       IN  IF h.threw
           THEN EndpointFailed(r)
           ELSE SendMessageEnds(r, [threw |-> FALSE, value |-> h.value], FALSE)
    /\ UNCHANGED <<loadPc, sqlite3, db, initialized, loadFailed, inputDisabled,
                   messagesIsArray>>
    /\ UNCHANGED offlineVars

WidgetNext ==
    \/ WasmLoaded
    \/ WasmFailed
    \/ RagFetched
    \/ RagFetchFailed
    \/ DatabaseOpened
    \/ DatabaseOpenFailed
    \/ LoadChatHistory
    \/ \E query \in Queries, ex \in DbExecs : SendMessage(query, ex)
    \/ \E r \in 1..Len(reqs) : EndpointErrored(r)
    \/ \E r \in 1..Len(reqs) :
          \E data \in ResponseBodies(reqs[r].query) : EndpointAnswered(r, data)

Next == WidgetNext

Spec == Init /\ [][Next]_vars

\* What the scheduling of the page guarantees: a continuation queued by a
\* settled await runs, so init() goes on to loadChatHistory once loadDatabase
\* has returned.  Nothing obliges a fetch to settle: callTerpediaAPI passes
\* no abort signal and sets no timeout (line 310), so a request may wait for
\* an endpoint for ever.
FairSpec == Init /\ [][Next]_vars /\ WF_vars(LoadChatHistory)

----------------------------------------------------------------------------
(* Properties of the widget *)

Issued(r) == r <= Len(reqs)

Done(r) == Issued(r) /\ reqs[r].pc = "done"

AllEndpointsFailed(r) == Done(r) /\ reqs[r].allFailed

LoadingShown(r) ==
    Issued(r) /\ \E i \in 1..Len(dom) : dom[i].id = reqs[r].loadingId /\ dom[i].loading

\* the assistant messages displayed for request r (loading placeholder excluded)
RepliesShown(r) ==
    { i \in 1..Len(dom) : dom[i].req = r /\ dom[i].role = "assistant" /\ ~dom[i].loading }

\* C1: if loading the index fails at any step, loadDatabase ends without
\* throwing (init() goes on to loadChatHistory, the input is enabled), initialized
\* is false, every findRelevantChunks call returns the empty list, and each
\* query issued went to the generation endpoint with no retrieved chunks.
C1_LoadFailureDegrades ==
    loadFailed =>
        /\ loadPc \in {"history", "done"}
        /\ ~initialized
        /\ ~inputDisabled
        /\ \A q \in Queries, ex \in DbExecs :
              findRelevantChunks(initialized, db, q, TopK, ex) = <<>>
        /\ \A r \in 1..Len(reqs) :
              reqs[r].chunks = <<>> /\ (Pending(r) => reqs[r].endpoint >= 1)

C1_Witness ==
    /\ loadFailed
    /\ Len(reqs) > 0
    /\ reqs[1].pc = "done"
    /\ ~reqs[1].allFailed
    /\ reqs[1].ui = "success"

\* C2: when every endpoint failed and retrieval had returned at least one
\* chunk, generateResponse returns generateContextualResponse over those
\* chunks and that answer is what the user sees; with every endpoint failed,
\* an error is shown only if no chunk had been retrieved.
C2_LocalFallback ==
    \A r \in 1..Len(reqs) :
        AllEndpointsFailed(r) =>
            /\ Len(reqs[r].chunks) > 0 =>
                  /\ reqs[r].result = "returned"
                  /\ reqs[r].answer =
                        generateContextualResponse(reqs[r].query, reqs[r].chunks)
                  /\ reqs[r].ui = "success"
                  /\ \A i \in RepliesShown(r) : dom[i].content = reqs[r].answer
            /\ reqs[r].ui = "error" => reqs[r].chunks = <<>>

C2_Witness ==
    \E r \in 1..Len(reqs) :
        /\ AllEndpointsFailed(r)
        /\ Len(reqs[r].chunks) > 0
        /\ RepliesShown(r) # {}

\* C3: the answer generateResponse returns is never the empty string.
C3_AnswerNeverEmpty ==
    \A r \in 1..Len(reqs) :
        (Done(r) /\ reqs[r].result = "returned") => ~IsEmptyString(reqs[r].answer)

\* C4: with no retrieved chunks and every endpoint failed, the answer
\* operation returns the fixed could-not-find message and does not throw.
C4_NoMatchFallback ==
    \A r \in 1..Len(reqs) :
        (AllEndpointsFailed(r) /\ reqs[r].chunks = <<>>) =>
            /\ reqs[r].result = "returned"
            /\ reqs[r].answer = NoInfoMessage(reqs[r].query)

\* C5: every sendMessage with a non-empty input eventually has its loading
\* placeholder removed and an assistant message (the answer or an error
\* message) displayed.
C5_LoadingCleared ==
    \A r \in 1..MaxRequests :
        Issued(r) ~> (~LoadingShown(r) /\ RepliesShown(r) # {})

\* what does hold: a sendMessage that ran to its end took the placeholder
\* away and shows an assistant message
EndedRequestsCleared ==
    \A r \in 1..Len(reqs) : Done(r) => (~LoadingShown(r) /\ RepliesShown(r) # {})

\* a sendMessage that threw at its first addMessage (line 542): it takes no
\* further step, and shows neither placeholder nor assistant message
SendThrewWithoutReply ==
    \E r \in 1..Len(reqs) :
        reqs[r].pc = "threw" /\ ~LoadingShown(r) /\ RepliesShown(r) = {}

\* C6: at most one query is outstanding at any time.
C6_OneOutstanding ==
    Cardinality({ r \in 1..Len(reqs) : Pending(r) }) <= 1

\* position of the last assistant answer on display
LastReply ==
    CHOOSE i \in 1..Len(dom) :
        /\ dom[i].role = "assistant" /\ ~dom[i].loading
        /\ \A j \in (i + 1)..Len(dom) : ~(dom[j].role = "assistant" /\ ~dom[j].loading)

\* C7: once all requests have completed, the latest displayed assistant
\* answer is the answer to the most recently issued query.
C7_LastQueryWins ==
    (Len(reqs) > 0 /\ \A r \in 1..Len(reqs) : Done(r)) =>
        dom[LastReply].req = Len(reqs)

----------------------------------------------------------------------------
(* chunkText(text, chunkSize): text is a sequence of one-character strings *)

MinChunkLength == 50

IsTerminator(c) == c \in {".", "!", "?"}

IsSpace(c) == c = " "

RECURSIVE Flatten(_)
Flatten(seqs) == IF seqs = <<>> THEN <<>> ELSE seqs[1] \o Flatten(Tail(seqs))

\* String.prototype.trim
Trim(str) ==
    LET keep == { i \in 1..Len(str) : ~IsSpace(str[i]) }
    IN  IF keep = {} THEN <<>>
        ELSE SubSeq(str, CHOOSE i \in keep : \A j \in keep : i <= j,
                         CHOOSE i \in keep : \A j \in keep : i >= j)

\* text.match(/[^.!?]+[.!?]+/g) from position pos on: each match starts at
\* the next non-terminator, runs to the next terminator and takes the whole
\* run of terminators; a stretch that reaches the end of the text without a
\* terminator matches nothing.
RECURSIVE MatchSentences(_, _)
MatchSentences(text, pos) ==
    LET body == { i \in pos..Len(text) : ~IsTerminator(text[i]) }
    IN  IF body = {} THEN <<>>
        ELSE LET start == CHOOSE i \in body : \A j \in body : i <= j
                 marks == { i \in start..Len(text) : IsTerminator(text[i]) }
             IN  IF marks = {} THEN <<>>
                 ELSE LET first == CHOOSE i \in marks : \A j \in marks : i <= j
                          last == CHOOSE e \in first..Len(text) :
                                     /\ \A j \in first..e : IsTerminator(text[j])
                                     /\ (e = Len(text) \/ ~IsTerminator(text[e + 1]))
                      IN  <<SubSeq(text, start, last)>> \o MatchSentences(text, last + 1)

\* const sentences = text.match(...) || [text]
Sentences(text) ==
    LET m == MatchSentences(text, 1) IN IF m = <<>> THEN <<text>> ELSE m

\* the for loop and the final flush: the chunks before the length filter
RECURSIVE Accumulate(_, _, _, _)
Accumulate(sentences, chunkSize, currentChunk, chunks) ==
    IF sentences = <<>>
    THEN IF Trim(currentChunk) # <<>> THEN Append(chunks, Trim(currentChunk)) ELSE chunks
    ELSE LET testChunk == currentChunk \o sentences[1]
         IN  IF Len(testChunk) > chunkSize /\ currentChunk # <<>>
             THEN Accumulate(Tail(sentences), chunkSize, sentences[1],
                             Append(chunks, Trim(currentChunk)))
             ELSE Accumulate(Tail(sentences), chunkSize, testChunk, chunks)

\* faulty variant: no minimum-length filter
chunkText_NoLengthFilter(text, chunkSize) ==
    Accumulate(Sentences(text), chunkSize, <<>>, <<>>)

\* faulty variant: the buffer is tested after the sentence was appended
RECURSIVE AccumulateLate(_, _, _, _)
AccumulateLate(sentences, chunkSize, currentChunk, chunks) ==
    IF sentences = <<>>
    THEN IF Trim(currentChunk) # <<>> THEN Append(chunks, Trim(currentChunk)) ELSE chunks
    ELSE IF Len(currentChunk) > chunkSize
         THEN AccumulateLate(Tail(sentences), chunkSize, sentences[1],
                             Append(chunks, Trim(currentChunk)))
         ELSE AccumulateLate(Tail(sentences), chunkSize,
                             currentChunk \o sentences[1], chunks)

chunkText_LateFlush(text, chunkSize) ==
    SelectSeq(AccumulateLate(Sentences(text), chunkSize, <<>>, <<>>),
              LAMBDA c : Len(c) > MinChunkLength)

\* faulty variant: on overflow the sentence is flushed with the buffer
RECURSIVE AccumulateInclusive(_, _, _, _)
AccumulateInclusive(sentences, chunkSize, currentChunk, chunks) ==
    IF sentences = <<>>
    THEN IF Trim(currentChunk) # <<>> THEN Append(chunks, Trim(currentChunk)) ELSE chunks
    ELSE LET testChunk == currentChunk \o sentences[1]
         IN  IF Len(testChunk) > chunkSize /\ currentChunk # <<>>
             THEN AccumulateInclusive(Tail(sentences), chunkSize, <<>>,
                                      Append(chunks, Trim(testChunk)))
             ELSE AccumulateInclusive(Tail(sentences), chunkSize, testChunk, chunks)

chunkText_FlushInclusive(text, chunkSize) ==
    SelectSeq(AccumulateInclusive(Sentences(text), chunkSize, <<>>, <<>>),
              LAMBDA c : Len(c) > MinChunkLength)

chunkText(text, chunkSize) ==
    SelectSeq(Accumulate(Sentences(text), chunkSize, <<>>, <<>>),
              LAMBDA c : Len(c) > MinChunkLength)

----------------------------------------------------------------------------
(* Texts handed to the chunker: up to MaxSegments pieces, each one of a few *)
(* fixed strings chosen so that chunks fall on both sides of the length    *)
(* filter and of the target size.                                          *)

MaxSegments == 3

Chars(c, n) == [i \in 1..n |-> c]

Pieces ==
    { <<"A", ".", " ", "B", ".", " ", "C", ".">>,
      <<"E", "h", "?", "!">>,
      Chars("x", 24) \o <<".">>,
      <<" ">> \o Chars("y", 24) \o <<".">>,
      <<" ">> \o Chars("z", 63) \o <<".">>,
      <<" ">> \o Chars("t", 54) }

RECURSIVE TextsOf(_)
TextsOf(n) ==
    IF n = 0 THEN { <<>> }
    ELSE TextsOf(n - 1) \cup { t \o p : t \in TextsOf(n - 1), p \in Pieces }

ChunkSizes == {2, 40, 60, 100}

WidgetIdle ==
    /\ loadPc = "wasm"
    /\ sqlite3 = FALSE
    /\ db = NullDb
    /\ initialized = FALSE
    /\ loadFailed = FALSE
    /\ inputDisabled = TRUE
    /\ messages = <<>>
    /\ messagesIsArray = TRUE
    /\ dom = <<>>
    /\ nextId = 1
    /\ stored = Absent
    /\ reqs = <<>>

InitChunk ==
    /\ WidgetIdle
    /\ ScoreIdle
    /\ BuildIdle
    /\ RetrieveIdle
    /\ cPc = "input"
    /\ cText \in TextsOf(MaxSegments)
    /\ cSize \in ChunkSizes
    /\ cResult = <<>>

CallChunkText ==
    /\ cPc = "input"
    /\ cResult' = chunkText(cText, cSize)
    /\ cPc' = "returned"
    /\ UNCHANGED <<cText, cSize>>
    /\ UNCHANGED otherThanChunk

NextChunk == CallChunkText

SpecChunk == InitChunk /\ [][NextChunk]_vars

----------------------------------------------------------------------------
(* Properties of chunkText *)

Returned == cPc = "returned"

\* C8: every chunk chunkText returns is longer than 50 characters, and
\* chunkText("A. B. C.", 2) is the empty list.
C8_ChunksLongerThanMin ==
    Returned =>
        /\ \A i \in 1..Len(cResult) : Len(cResult[i]) > 50
        /\ (cText = <<"A", ".", " ", "B", ".", " ", "C", ".">> /\ cSize = 2)
              => cResult = <<>>

C8_Witness ==
    /\ Returned
    /\ cResult # <<>>
    /\ Len(cResult) < Len(Accumulate(Sentences(cText), cSize, <<>>, <<>>))

\* a chunk that is one single sentence longer than the target size
OversizedSentence(chunk) ==
    \E k \in 1..Len(Sentences(cText)) :
        Len(Sentences(cText)[k]) > cSize /\ chunk = Trim(Sentences(cText)[k])

\* C9: every returned chunk other than a single sentence longer than the
\* target size is at most the target size plus the length of one sentence,
\* whichever sentence of the text that is.
C9_ChunkSizeBound ==
    Returned =>
        \A i \in 1..Len(cResult) :
            \/ OversizedSentence(cResult[i])
            \/ \A k \in 1..Len(Sentences(cText)) :
                  Len(cResult[i]) <= cSize + Len(Sentences(cText)[k])

C9_Witness ==
    /\ Returned
    /\ Len(Sentences(cText)) >= 3
    /\ \E i \in 1..Len(cResult) : OversizedSentence(cResult[i])
    /\ \E i \in 1..Len(cResult) : ~OversizedSentence(cResult[i])

NonSpace(str) == SelectSeq(str, LAMBDA c : ~IsSpace(c))

\* the trimmed text of sentences i..j
RunText(sentences, i, j) == Trim(Flatten(SubSeq(sentences, i, j)))

\* chunks are, in order, runs of whole consecutive sentences taken from
\* sentence `from` on; a sentence left out between runs has a trimmed length
\* of at most maxSkipped (-1: no sentence is left out)
RECURSIVE ChunksAreRuns(_, _, _, _)
ChunksAreRuns(chunks, sentences, from, maxSkipped) ==
    IF chunks = <<>>
    THEN \A k \in from..Len(sentences) : Len(Trim(sentences[k])) <= maxSkipped
    ELSE \E i \in from..Len(sentences), j \in from..Len(sentences) :
            /\ i <= j
            /\ chunks[1] = RunText(sentences, i, j)
            /\ \A k \in from..(i - 1) : Len(Trim(sentences[k])) <= maxSkipped
            /\ ChunksAreRuns(Tail(chunks), sentences, j + 1, maxSkipped)

\* the text after the last terminal punctuation mark
UnterminatedTail(text) ==
    LET marks == { i \in 1..Len(text) : IsTerminator(text[i]) }
    IN  IF marks = {} THEN text
        ELSE SubSeq(text, (CHOOSE i \in marks : \A j \in marks : j <= i) + 1, Len(text))

\* not what line 242 computes (that is Sentences): the sentences a text
\* would have if a run without terminal punctuation counted as a sentence
\* wherever it stands, as C24 states it
SentencesWithTail(text) ==
    IF Trim(UnterminatedTail(text)) = <<>> \/ MatchSentences(text, 1) = <<>>
    THEN Sentences(text)
    ELSE Append(MatchSentences(text, 1), UnterminatedTail(text))

\* C10: the chunks in order reproduce the sentence-level content of the
\* input, the text of all its sentences including a run that follows the
\* last terminated one, each chunk a run of whole consecutive sentences and
\* no sentence with any text left out.
C10_ChunksReproduceText ==
    Returned =>
        /\ NonSpace(Flatten(cResult)) = NonSpace(Flatten(SentencesWithTail(cText)))
        /\ ChunksAreRuns(cResult, SentencesWithTail(cText), 1, 0)

\* a call in which text is lost that the length filter does not account
\* for: one chunk, the only terminated sentence, and after it a run of more
\* than 50 characters that is in no chunk
TailLostBesideKeptChunk ==
    /\ Returned
    /\ Len(MatchSentences(cText, 1)) = 1
    /\ cResult = <<Trim(MatchSentences(cText, 1)[1])>>
    /\ Len(Trim(UnterminatedTail(cText))) > MinChunkLength

\* The greedy grouping stated over sentence positions: the run that starts
\* at sentence i takes every following sentence as long as the run stays
\* within n characters, and always its first sentence.
RunLength(sentences, i, j) == Len(Flatten(SubSeq(sentences, i, j)))

RunEnd(sentences, n, i) ==
    CHOOSE j \in i..Len(sentences) :
        /\ j = i \/ RunLength(sentences, i, j) <= n
        /\ j = Len(sentences) \/ RunLength(sentences, i, j + 1) > n

RECURSIVE GreedyRuns(_, _, _)
GreedyRuns(sentences, n, i) ==
    IF i > Len(sentences) THEN <<>>
    ELSE <<Flatten(SubSeq(sentences, i, RunEnd(sentences, n, i)))>>
         \o GreedyRuns(sentences, n, RunEnd(sentences, n, i) + 1)

\* the runs, each trimmed as a flushed buffer is, that are longer than min
RunsLongerThan(sentences, n, min) ==
    SelectSeq([r \in 1..Len(GreedyRuns(sentences, n, 1)) |->
                  Trim(GreedyRuns(sentences, n, 1)[r])],
              LAMBDA c : Len(c) > min)

\* the runs as chunkText hands them out: trimmed, and only those longer
\* than 50 characters
KeptRuns(sentences, n) == RunsLongerThan(sentences, n, MinChunkLength)

\* C23 as stated: the chunks are the non-empty buffers of the greedy
\* accumulation over the sentences (flush the non-empty buffer when buffer +
\* sentence is longer than n, otherwise append, flush what remains), and
\* every sentence longer than n is a chunk of its own, unsplit.
C23_GreedyAsStated ==
    Returned =>
        /\ cResult = RunsLongerThan(Sentences(cText), cSize, 0)
        /\ \A k \in 1..Len(Sentences(cText)) :
              Len(Sentences(cText)[k]) > cSize
                  => \E i \in 1..Len(cResult) : cResult[i] = Trim(Sentences(cText)[k])

\* C23 amended: the chunks are the buffers of the greedy accumulation over
\* the sentences, each trimmed when it is flushed, of which only those longer
\* than 50 characters are returned; a sentence longer than n is flushed as a
\* chunk of its own, unsplit, and returned when its trimmed text is longer
\* than 50 characters.
C23_GreedyAccumulation ==
    Returned =>
        /\ cResult = KeptRuns(Sentences(cText), cSize)
        /\ \A k \in 1..Len(Sentences(cText)) :
              (/\ Len(Sentences(cText)[k]) > cSize
               /\ Len(Trim(Sentences(cText)[k])) > MinChunkLength)
                  => \E i \in 1..Len(cResult) : cResult[i] = Trim(Sentences(cText)[k])

C23_Witness ==
    /\ Returned
    /\ \E k \in 2..Len(Sentences(cText)) : \E i \in 2..Len(cResult) :
          /\ Len(Sentences(cText)[k]) > cSize
          /\ cResult[i] = Trim(Sentences(cText)[k])
    /\ \E i \in 1..Len(cResult) :
          \E k \in 1..(Len(Sentences(cText)) - 1) :
              cResult[i] = RunText(Sentences(cText), k, k + 1)

\* C24: a run of text without terminal punctuation is a sentence like any
\* other, both when the text has no terminal punctuation at all and when
\* the run follows the last terminated sentence.
C24_UnterminatedRunIsSentence ==
    Returned => cResult = KeptRuns(SentencesWithTail(cText), cSize)

\* what does hold: a text without any terminal punctuation is one sentence
UnpunctuatedTextIsOneSentence ==
    (Returned /\ \A i \in 1..Len(cText) : ~IsTerminator(cText[i])) =>
        cResult = IF Len(Trim(cText)) > MinChunkLength THEN <<Trim(cText)>> ELSE <<>>

----------------------------------------------------------------------------
(* findRelevantContext(query, content, topK) of the server endpoint        *)
(* (src/api/chat.js), and findWithKeywords of the widget on the same       *)
(* query and chunks.  A text is the sequence of its whitespace-separated   *)
(* words; a query word holds no whitespace, so its matches in a text are   *)
(* its matches inside the words of the text.                               *)

ContextTopK == 3

ChunkJoin == "\n\n"

NullContent == [loaded |-> FALSE, chunks |-> <<>>]

\* new RegExp(word, 'g'): the word is read as a pattern, not as text.  A word
\* of letters matches itself wherever it occurs; "^us" is the text "us" at
\* the very start of the string; "(like" is no pattern (unterminated group)
\* and the constructor throws a SyntaxError.
RegExp(word) ==
    IF word = "(like" THEN [throws |-> TRUE, atStart |-> FALSE, text |-> ""]
    ELSE IF word = "^us" THEN [throws |-> FALSE, atStart |-> TRUE, text |-> "us"]
    ELSE [throws |-> FALSE, atStart |-> FALSE, text |-> word]

\* pairs <<v, w>> of different words of the texts of which w begins with v
PrefixPairs == { <<"terpene", "terpenes">> }

\* the matches of the text of a pattern within one word
Occurrences(text, w) ==
    IF text = w \/ <<text, w>> \in SubstringPairs THEN 1 ELSE 0

\* (chunkLower.match(new RegExp(word, 'g')) || []).length, for a word that
\* is a pattern
RECURSIVE MatchCount(_, _)
MatchCount(word, chunkLower) ==
    IF chunkLower = <<>> THEN 0
    ELSE IF RegExp(word).atStart
    THEN IF chunkLower[1] = RegExp(word).text
            \/ <<RegExp(word).text, chunkLower[1]>> \in PrefixPairs
         THEN 1 ELSE 0
    ELSE Occurrences(RegExp(word).text, chunkLower[1])
         + MatchCount(word, Tail(chunkLower))

\* the score the map callback computes for one chunk (lines 54-60)
RECURSIVE KeywordScore(_, _)
KeywordScore(queryWords, chunk) ==
    IF queryWords = <<>> THEN 0
    ELSE MatchCount(queryWords[1], toLowerCase(chunk))
         + KeywordScore(Tail(queryWords), chunk)

\* content.chunks.map((chunk, index) => ({ chunk, score, index }))
ScoredChunks(query, content) ==
    [i \in 1..Len(content.chunks) |->
        [chunk |-> content.chunks[i],
         score |-> KeywordScore(toLowerCase(query), content.chunks[i]),
         index |-> i - 1]]

\* Array.prototype.sort with (a, b) => b.score - a.score: a stable sort
RECURSIVE InsertByScore(_, _)
InsertByScore(sorted, item) ==
    IF sorted = <<>> THEN <<item>>
    ELSE IF item.score > sorted[1].score THEN <<item>> \o sorted
    ELSE <<sorted[1]>> \o InsertByScore(Tail(sorted), item)

RECURSIVE SortByScoreDesc(_)
SortByScoreDesc(items) ==
    IF items = <<>> THEN <<>>
    ELSE InsertByScore(SortByScoreDesc(SubSeq(items, 1, Len(items) - 1)),
                       items[Len(items)])

\* topChunks.join('\n\n')
RECURSIVE JoinChunks(_)
JoinChunks(chunks) ==
    IF chunks = <<>> THEN <<>>
    ELSE IF Len(chunks) = 1 THEN chunks[1]
    ELSE chunks[1] \o <<ChunkJoin>> \o JoinChunks(Tail(chunks))

\* the call throws: the map callback runs for a chunk and new RegExp throws
\* on a query word
findRelevantContextThrows(query, content) ==
    /\ content.loaded
    /\ content.chunks # <<>>
    /\ \E k \in 1..Len(query) : RegExp(LowerWord(query[k])).throws

findRelevantContext(query, content, topK) ==
    IF ~content.loaded THEN <<>>
    ELSE LET scoredChunks == SortByScoreDesc(ScoredChunks(query, content))
             top == Limit(scoredChunks, topK)
             topChunks == [i \in 1..Len(top) |-> top[i].chunk]
         IN  JoinChunks(topChunks)

----------------------------------------------------------------------------
(* Queries and chunk collections handed to the scorers *)

MaxContentChunks == 3

ScorerQueries ==
    { <<"terpene", "flavor">>,
      <<"Flavor", "is">>,
      <<"xyzzyplugh", "nonsense">>,
      <<"^us", "flavor">>,
      <<"flavor", "(like">> }

ChunkPool ==
    { <<"flavor", "terpene">>,
      <<"flavor", "terpene", "flavor">>,
      <<"flavor", "is", "spicy">>,
      <<"terpene", "flavor", "is", "spicy">>,
      <<"flavor", "flavor", "terpene", "terpene", "aromatic">>,
      <<"cinnamaldehyde", "can", "be", "very", "spicy", "indeed">>,
      <<"terpenes", "are", "aromatic", "compounds">>,
      <<"Flavor", "of", "Terpene">>,
      <<"us", "flavor">>,
      <<"^us", "us", "flavor">> }

\* the sequences of up to n different chunks of the pool
RECURSIVE ChunkListsOf(_)
ChunkListsOf(n) ==
    IF n = 0 THEN { <<>> }
    ELSE ChunkListsOf(n - 1)
         \cup { Append(l, c) : l \in { m \in ChunkListsOf(n - 1) : Len(m) = n - 1 },
                               c \in ChunkPool }

Contents ==
    { NullContent }
    \cup { [loaded |-> TRUE, chunks |-> l] :
              l \in { m \in ChunkListsOf(MaxContentChunks) :
                         \A i, j \in 1..Len(m) : i # j => m[i] # m[j] } }

\* the chunks table holding the chunks of content, in the same order
RowsOf(content) ==
    [i \in 1..Len(content.chunks) |->
        [id |-> i, page_title |-> "Main Article", section_heading |-> "",
         chunk_text |-> content.chunks[i], word_count |-> Len(content.chunks[i])]]

\* db.exec of the keyword statement on that table: rows are scanned in
\* table order
TableScan(content) ==
    [fts |-> "error", kw |-> "rows",
     order |-> [i \in 1..Len(content.chunks) |-> i]]

InitScore ==
    /\ WidgetIdle
    /\ ChunkIdle
    /\ BuildIdle
    /\ RetrieveIdle
    /\ sPc = "input"
    /\ sQuery \in ScorerQueries
    /\ sContent \in Contents
    /\ sScored = <<>>
    /\ sContext = <<>>
    /\ sRows = <<>>

CallScorers ==
    /\ sPc = "input"
    /\ sScored' = IF sContent.loaded /\ ~findRelevantContextThrows(sQuery, sContent)
                  THEN SortByScoreDesc(ScoredChunks(sQuery, sContent))
                  ELSE <<>>
    /\ sContext' = IF findRelevantContextThrows(sQuery, sContent) THEN <<>>
                   ELSE findRelevantContext(sQuery, sContent, ContextTopK)
    /\ sRows' = findWithKeywords([open |-> sContent.loaded, rows |-> RowsOf(sContent)],
                                 sQuery, TopK, TableScan(sContent)).rows
    /\ sPc' = IF findRelevantContextThrows(sQuery, sContent) THEN "threw" ELSE "returned"
    /\ UNCHANGED <<sQuery, sContent>>
    /\ UNCHANGED otherThanScore

NextScore == CallScorers

SpecScore == InitScore /\ [][NextScore]_vars

----------------------------------------------------------------------------
(* Properties of the keyword scorers *)

ScorerReturned == sPc = "returned" /\ sContent.loaded

\* the chunks findRelevantContext joins into the context
TopChunks == Limit(sScored, ContextTopK)

\* the occurrences of the words, as text, in the text
RECURSIVE LiteralCount(_, _)
LiteralCount(words, text) ==
    IF words = <<>> \/ text = <<>> THEN 0
    ELSE Occurrences(words[1], text[1]) + LiteralCount(<<words[1]>>, Tail(text))
         + LiteralCount(Tail(words), text)

\* the relevance score of a row findWithKeywords returned: the occurrences
\* of the words it searched for
RowScore(row) == LiteralCount(QueryWords(toLowerCase(sQuery)), toLowerCase(row.chunk_text))

\* the lower-cased query occurs verbatim in the lower-cased chunk
ContainsPhrase(chunk, query) ==
    LET q == toLowerCase(query)
        c == toLowerCase(chunk)
    IN  \E i \in 1..(Len(c) - Len(q) + 1) : SubSeq(c, i, i + Len(q) - 1) = q

\* the chunk texts obtained by adding the word w once, at any place
Insertions(chunk, w) ==
    { SubSeq(chunk, 1, k) \o <<w>> \o SubSeq(chunk, k + 1, Len(chunk)) :
         k \in 0..Len(chunk) }

\* findRelevantContext alone: descending by score, equal scores in the
\* original chunk order
ServerOrderIsStableDescending ==
    ScorerReturned =>
        \A i, j \in 1..Len(sScored) :
            i < j => \/ sScored[i].score > sScored[j].score
                     \/ /\ sScored[i].score = sScored[j].score
                        /\ sScored[i].index < sScored[j].index

\* findWithKeywords alone: no row without an occurrence of a searched word
WidgetRowsAllMatch ==
    ScorerReturned => \A i \in 1..Len(sRows) : RowScore(sRows[i]) > 0

\* C12: both keyword scorers return the chunks in descending order of
\* their relevance score for the query, chunks of equal score in their
\* original order.
C12_DescendingByScore ==
    ScorerReturned =>
        /\ \A i, j \in 1..Len(sScored) :
              i < j => \/ sScored[i].score > sScored[j].score
                       \/ /\ sScored[i].score = sScored[j].score
                          /\ sScored[i].index < sScored[j].index
        /\ \A i, j \in 1..Len(sRows) :
              i < j => \/ RowScore(sRows[i]) > RowScore(sRows[j])
                       \/ /\ RowScore(sRows[i]) = RowScore(sRows[j])
                          /\ sRows[i].id < sRows[j].id

\* C13: a chunk that holds the whole lower-cased query verbatim is ranked
\* before every chunk that holds query keywords but not the phrase, by
\* findRelevantContext and by findWithKeywords.
C13_ExactPhraseFirst ==
    ScorerReturned =>
        /\ \A i, j \in 1..Len(sScored) :
              ( /\ ContainsPhrase(sScored[i].chunk, sQuery)
                /\ ~ContainsPhrase(sScored[j].chunk, sQuery)
                /\ sScored[j].score > 0 ) => i < j
        /\ \A i, j \in 1..Len(sRows) :
              ( /\ ContainsPhrase(sRows[i].chunk_text, sQuery)
                /\ ~ContainsPhrase(sRows[j].chunk_text, sQuery) ) => i < j

\* C14: no chunk of score 0 is among the results of either scorer, and
\* when no chunk has a query word the context returned is empty.
C14_ZeroScoreExcluded ==
    ScorerReturned =>
        /\ \A i \in 1..Len(TopChunks) : TopChunks[i].score > 0
        /\ (\A i \in 1..Len(sScored) : sScored[i].score = 0) => sContext = <<>>
        /\ \A i \in 1..Len(sRows) : RowScore(sRows[i]) > 0

\* C15: of two chunks scored by findRelevantContext for the same query, one
\* being the other with one more occurrence of a query word added, the one
\* with the addition has a score at least as high.
C15_ScoreMonotone ==
    ScorerReturned =>
        \A i, j \in 1..Len(sScored) :
            (\E k \in 1..Len(sQuery) :
                sScored[j].chunk \in Insertions(sScored[i].chunk, LowerWord(sQuery[k])))
            => sScored[j].score >= sScored[i].score

\* a query word is read by new RegExp as the text it spells
PlainWord(word) == ~RegExp(word).throws /\ ~RegExp(word).atStart /\ RegExp(word).text = word

\* what does hold: the same for the queries all of whose words are plain
PlainQueryScoreMonotone ==
    (ScorerReturned /\ \A k \in 1..Len(sQuery) : PlainWord(LowerWord(sQuery[k]))) =>
        \A i, j \in 1..Len(sScored) :
            (\E k \in 1..Len(sQuery) :
                sScored[j].chunk \in Insertions(sScored[i].chunk, LowerWord(sQuery[k])))
            => sScored[j].score >= sScored[i].score

\* findRelevantContext computes a score for every query (it does not: a
\* query word that is no pattern makes the call throw)
EveryQueryIsScored == sPc # "threw"

----------------------------------------------------------------------------
(* Further properties of the widget *)

\* request r got its answer from an endpoint (callTerpediaAPI returned)
AnsweredByEndpoint(r) ==
    Done(r) /\ reqs[r].result = "returned" /\ ~reqs[r].allFailed

\* C16: whatever body a successful endpoint response carries, the value
\* callTerpediaAPI returns for it is a string.
C16_BodyNormalized ==
    \A r \in 1..Len(reqs) : AnsweredByEndpoint(r) => reqs[r].answer.t = "str"

\* sendMessage r threw before it showed the loading placeholder
Threw(r) == Issued(r) /\ reqs[r].pc = "threw"

\* C17: whatever is stored under the chat-history key, once init() has run
\* this.messages is a usable list, empty unless a list of turns was stored,
\* and no later sendMessage throws.
C17_HistoryLoadRecovers ==
    /\ loadPc = "done" => messagesIsArray
    /\ (loadPc = "done" /\ reqs = <<>> /\ stored.kind # "list") => messages = <<>>
    /\ \A r \in 1..Len(reqs) : ~Threw(r)

\* C18: the conversation history sent with a request has at most 10 turns,
\* and they are the turns of this.messages that end with the request's own
\* user message, in the order of this.messages.
C18_HistoryCapped ==
    \A r \in 1..Len(reqs) :
        ~Threw(r) =>
            /\ Len(reqs[r].history) <= 10
            /\ \E k \in 1..Len(messages) :
                  /\ messages[k] = [role |-> "user", content |-> Str(reqs[r].query)]
                  /\ reqs[r].history =
                        SubSeq(messages, IF k > 10 THEN k - 9 ELSE 1, k)

C18_Witness ==
    \E r \in 1..Len(reqs) :
        /\ Done(r)
        /\ Len(reqs[r].history) = 10
        /\ Len(messages) > 12
        /\ reqs[r].history[1] # messages[1]

-----------------------------------------------------------------------------
(* The two build scripts.  build-rag-sqlite.js (RAGSQLiteBuilder) writes    *)
(* rag.sqlite, build-rag.js (RAGBuilder) writes rag-index.json.  An HTML    *)
(* file is given by what its markup amounts to once tags are stripped: the  *)
(* text before the first heading and, for every h1..h4, the heading and the *)
(* text up to the next heading.  Texts are sequences of characters, as for  *)
(* chunkText.  Each file-system call and each SQL statement is one step, so *)
(* that the file at the index path can be looked at between any two.        *)

PageChunkSize == 500

SectionChunkSize == 400

MinSectionLength == 50

MinSectionChunked == 100

MetadataRows == 4

SchemaTables == 3

LookupIndexes == 3

BatchSize == 100

\* a sentence of n characters c and a full stop
Sentence(c, n) == Chars(c, n) \o <<".">>

HeadingChars(heading) ==
    CASE heading = "Overview" -> <<"O", "v", "e", "r", "v", "i", "e", "w">>
      [] heading = "Mission"  -> <<"M", "i", "s", "s", "i", "o", "n">>
      [] heading = "Safety"   -> <<"S", "a", "f", "e", "t", "y">>
      [] heading = "Notes"    -> <<"N", "o", "t", "e", "s">>

HtmlFile(filePath, title, lead, parts) ==
    [filePath |-> filePath, title |-> title, lead |-> lead, parts |-> parts]

\* the four files build() names, as they may be on disk
FilePool ==
    << HtmlFile("index.html", "Main Article", <<>>,
                << [heading |-> "Overview", body |-> Sentence("a", 300)],
                   [heading |-> "Overview", body |-> Sentence("b", 300)] >>),
       HtmlFile("about.html", "About Terpedia", Sentence("c", 60),
                << [heading |-> "Mission", body |-> Sentence("d", 70)] >>),
       HtmlFile("compounds.html", "All Compounds", <<>>, <<>>),
       HtmlFile("cinnamon-roll-tabs.html", "Cinnamon Roll", <<"E", "h", "?", "!">>,
                << [heading |-> "Safety", body |-> Sentence("e", 110)] >>) >>

\* the processFile calls of build() before it reads the directory
RootCalls ==
    << [filePath |-> "index.html", title |-> "Main Article"],
       [filePath |-> "about.html", title |-> "About Terpedia"],
       [filePath |-> "compounds.html", title |-> "All Compounds"],
       [filePath |-> "cinnamon-roll-tabs.html", title |-> "Cinnamon Roll"] >>

\* file names of the directory compounds/ that end in .html, each with
\* file.replace('.html', '').replace(/-/g, ' ')
CompoundNames == { <<"x-y.html", "x y">> }

\* f.endsWith('.html')
EndsWithHtml(name) == \E p \in CompoundNames : p[1] = name

\* the directory compounds/: missing, empty, or holding a page and a note
CompoundsDirs ==
    { [exists |-> FALSE, names |-> <<>>],
      [exists |-> TRUE, names |-> <<>>],
      [exists |-> TRUE, names |-> <<"readme.txt", "x-y.html">>] }

\* the pages of compounds/ as they may be on disk
CompoundPool ==
    << HtmlFile("compounds/x-y.html", "", <<>>,
                << [heading |-> "Notes", body |-> Sentence("n", 120)] >>) >>

MaxPages == 2

\* what is on disk: some of the four named files and a directory compounds/
Sites ==
    { [files |-> SelectSeq(FilePool, LAMBDA f : f.filePath \in present)
                 \o SelectSeq(CompoundPool, LAMBDA f :
                       \E k \in 1..Len(dir.names) :
                           f.filePath = "compounds/" \o dir.names[k]),
       compounds |-> dir] :
        present \in { ps \in SUBSET { FilePool[i].filePath : i \in 1..Len(FilePool) } :
                        Cardinality(ps) <= MaxPages },
        dir \in CompoundsDirs }

\* the pieces joined by single spaces: replace(/<[^>]+>/g, ' '),
\* replace(/\s+/g, ' ') and trim() applied to the markup
RECURSIVE JoinPieces(_)
JoinPieces(pieces) ==
    IF pieces = <<>> THEN <<>>
    ELSE LET rest == JoinPieces(Tail(pieces))
         IN  IF pieces[1] = <<>> THEN rest
             ELSE IF rest = <<>> THEN pieces[1]
             ELSE pieces[1] \o <<" ">> \o rest

RECURSIVE PartPieces(_)
PartPieces(parts) ==
    IF parts = <<>> THEN <<>>
    ELSE <<HeadingChars(parts[1].heading), parts[1].body>> \o PartPieces(Tail(parts))

extractSections(parts) ==
    SelectSeq([i \in 1..Len(parts) |->
                  [heading |-> parts[i].heading, text |-> <<" ">> \o parts[i].body]],
              LAMBDA sec : Len(sec.text) > MinSectionLength)

\* text.split(/\s+/).length of a trimmed text with single spaces; splitting
\* the empty string gives [''], of length 1
WordCount(text) == 1 + Cardinality({ i \in 1..Len(text) : IsSpace(text[i]) })

extractContent(file) ==
    LET text == JoinPieces(<<file.lead>> \o PartPieces(file.parts))
    IN  [title |-> file.title, filePath |-> file.filePath, url |-> file.filePath,
         text |-> text,
         sections |-> extractSections(file.parts),
         wordCount |-> WordCount(text)]

\* the processFile calls of the loop over compoundFiles
CompoundCalls(site) ==
    LET compoundFiles == SelectSeq(site.compounds.names, EndsWithHtml)
    IN  [i \in 1..Len(compoundFiles) |->
            [filePath |-> "compounds/" \o compoundFiles[i],
             title |-> "Compound: "
                       \o (CHOOSE p \in CompoundNames : p[1] = compoundFiles[i])[2]]]

\* this.content after processFile(call.filePath, call.title): a missing file
\* and a page with empty text are not pushed
processFile(content, site, call) ==
    LET found == SelectSeq(site.files, LAMBDA f : f.filePath = call.filePath)
        page == extractContent([found[1] EXCEPT !.title = call.title])
    IN  IF found = <<>> THEN content
        ELSE IF page.text = <<>> THEN content
        ELSE Append(content, page)

\* this.content after all the processFile calls of a build() that found
\* the directory
RECURSIVE processCalls(_, _, _)
processCalls(content, site, calls) ==
    IF calls = <<>> THEN content
    ELSE processCalls(processFile(content, site, calls[1]), site, Tail(calls))

processFiles(site) == processCalls(<<>>, site, RootCalls \o CompoundCalls(site))

\* RAGSQLiteBuilder: the chunk records carry no id
PageChunks(page) ==
    LET textChunks == chunkText(page.text, PageChunkSize)
    IN  [i \in 1..Len(textChunks) |->
            [pageTitle |-> page.title, pageUrl |-> page.url, sectionHeading |-> "",
             text |-> textChunks[i], chunkIndex |-> i - 1,
             totalChunks |-> Len(textChunks), wordCount |-> WordCount(textChunks[i]),
             isSection |-> FALSE]]

RECURSIVE SectionChunks(_, _)
SectionChunks(page, sections) ==
    IF sections = <<>> THEN <<>>
    ELSE LET section == sections[1]
             sectionChunks == IF Len(section.text) > MinSectionChunked
                              THEN chunkText(section.text, SectionChunkSize)
                              ELSE <<>>
         IN  [i \in 1..Len(sectionChunks) |->
                 [pageTitle |-> page.title, pageUrl |-> page.url,
                  sectionHeading |-> section.heading,
                  text |-> sectionChunks[i], chunkIndex |-> i - 1,
                  totalChunks |-> Len(sectionChunks),
                  wordCount |-> WordCount(sectionChunks[i]),
                  isSection |-> TRUE]]
             \o SectionChunks(page, Tail(sections))

RECURSIVE createChunks(_)
createChunks(content) ==
    IF content = <<>> THEN <<>>
    ELSE PageChunks(content[1]) \o SectionChunks(content[1], content[1].sections)
         \o createChunks(Tail(content))

\* RAGBuilder: the same records with an id made of the page's path, the kind
\* of chunk, the section's heading and the chunk's index in its own text
PageChunkId(page, i) == page.filePath \o "-chunk-" \o ToString(i)

SectionChunkId(page, section, i) ==
    page.filePath \o "-section-" \o section.heading \o "-" \o ToString(i)

WithId(chunk, id) == [f \in DOMAIN chunk \cup {"id"} |-> IF f = "id" THEN id ELSE chunk[f]]

RECURSIVE SectionChunksWithId(_, _)
SectionChunksWithId(page, sections) ==
    IF sections = <<>> THEN <<>>
    ELSE LET these == SectionChunks(page, <<sections[1]>>)
         IN  [i \in 1..Len(these) |->
                 WithId(these[i], SectionChunkId(page, sections[1], i - 1))]
             \o SectionChunksWithId(page, Tail(sections))

RECURSIVE createChunksWithId(_)
createChunksWithId(content) ==
    IF content = <<>> THEN <<>>
    ELSE LET page == content[1]
             pageChunks == PageChunks(page)
         IN  [i \in 1..Len(pageChunks) |-> WithId(pageChunks[i], PageChunkId(page, i - 1))]
             \o SectionChunksWithId(page, page.sections)
             \o createChunksWithId(Tail(content))

\* INSERT INTO chunks: id is INTEGER PRIMARY KEY AUTOINCREMENT
ChunkRow(id, chunk) ==
    [id |-> id, page_title |-> chunk.pageTitle, page_url |-> chunk.pageUrl,
     section_heading |-> chunk.sectionHeading, chunk_text |-> chunk.text,
     chunk_index |-> chunk.chunkIndex, word_count |-> chunk.wordCount]

\* rag.sqlite as a run of RAGSQLiteBuilder.build() in which new Database
\* constructs leaves it: with all its rows, or with the empty tables when
\* the directory compounds/ is missing
BuiltDb(site, build) ==
    LET chunks == createChunks(processFiles(site))
    IN  IF ~site.compounds.exists
        THEN [NoFile EXCEPT !.exists = TRUE, !.build = build, !.tables = SchemaTables]
        ELSE [exists |-> TRUE, build |-> build, tables |-> SchemaTables,
              meta |-> MetadataRows,
              rows |-> [i \in 1..Len(chunks) |-> ChunkRow(i, chunks[i])],
              embeddings |-> 1..Len(chunks), indexes |-> LookupIndexes,
              fts |-> "populated", json |-> "none", chunks |-> <<>>]

\* rag-index.json as a run of RAGBuilder.build() over the site leaves it:
\* nothing is written when the directory compounds/ is missing
BuiltJson(site, build) ==
    IF ~site.compounds.exists THEN NoFile
    ELSE [NoFile EXCEPT !.exists = TRUE, !.build = build, !.json = "index",
                        !.chunks = createChunksWithId(processFiles(site))]

PreviousSite == [files |-> <<FilePool[2]>>, compounds |-> [exists |-> TRUE, names |-> <<>>]]

InitBuild ==
    /\ WidgetIdle
    /\ ChunkIdle
    /\ ScoreIdle
    /\ RetrieveIdle
    /\ bKind \in {"sqlite", "json"}
    /\ bPc = IF bKind = "sqlite" THEN "unlink" ELSE "process"
    /\ bSite \in Sites
    /\ Database \in (IF bKind = "sqlite" THEN {"undefined", "class"} ELSE {"undefined"})
    /\ bCalls = RootCalls
    /\ bContent = <<>>
    /\ bChunks = <<>>
    /\ dbFile \in {NoFile, BuiltDb(PreviousSite, "previous")}
    /\ jsonFile \in {NoFile, BuiltJson(PreviousSite, "previous")}
    /\ bKind = "sqlite" => jsonFile = NoFile
    /\ bKind = "json" => dbFile = NoFile

\* initDatabase: fs.unlinkSync of an existing file
UnlinkExisting ==
    /\ bPc = "unlink"
    /\ bPc' = "schema"
    /\ dbFile' = NoFile
    /\ UNCHANGED <<bKind, bSite, Database, bCalls, bContent, bChunks, jsonFile>>
    /\ UNCHANGED otherThanBuild

\* new Database(this.dbPath) in initDatabase, generateEmbeddingsAndStore or
\* createIndexes when the name is bound to undefined: TypeError, build()
\* rejects and the script ends
NewDatabaseThrows ==
    /\ bPc \in {"schema", "meta", "index"}
    /\ Database = "undefined"
    /\ bPc' = "failed"
    /\ UNCHANGED <<bKind, bSite, Database, bCalls, bContent, bChunks, dbFile, jsonFile>>
    /\ UNCHANGED otherThanBuild

\* initDatabase: new Database(this.dbPath) creates the file, without tables
NewDatabase ==
    /\ bPc = "schema"
    /\ Database = "class"
    /\ bPc' = "tables"
    /\ dbFile' = [NoFile EXCEPT !.exists = TRUE, !.build = "new"]
    /\ UNCHANGED <<bKind, bSite, Database, bCalls, bContent, bChunks, jsonFile>>
    /\ UNCHANGED otherThanBuild

\* initDatabase: one of the three CREATE TABLE statements of db.exec, each
\* committed on its own
CreateSchema ==
    /\ bPc = "tables"
    /\ dbFile' = [dbFile EXCEPT !.tables = @ + 1]
    /\ bPc' = IF dbFile.tables + 1 < SchemaTables THEN "tables" ELSE "process"
    /\ UNCHANGED <<bKind, bSite, Database, bCalls, bContent, bChunks, jsonFile>>
    /\ UNCHANGED otherThanBuild

\* one await this.processFile(filePath, title) of build()
ProcessFile ==
    /\ bPc \in {"process", "compounds"}
    /\ bCalls # <<>>
    /\ bContent' = processFile(bContent, bSite, Head(bCalls))
    /\ bCalls' = Tail(bCalls)
    /\ bPc' = IF Tail(bCalls) # <<>> THEN bPc
              ELSE IF bPc = "process" THEN "readdir"
              ELSE "chunk"
    /\ UNCHANGED <<bKind, bSite, Database, bChunks, dbFile, jsonFile>>
    /\ UNCHANGED otherThanBuild

\* fs.readdirSync(compoundsDir).filter(f => f.endsWith('.html')): without
\* the directory it throws ENOENT, build() rejects and the script ends
ReadCompoundsDir ==
    /\ bPc = "readdir"
    /\ IF ~bSite.compounds.exists
       THEN bPc' = "failed" /\ bCalls' = <<>>
       ELSE /\ bCalls' = CompoundCalls(bSite)
            /\ bPc' = IF CompoundCalls(bSite) = <<>> THEN "chunk" ELSE "compounds"
    /\ UNCHANGED <<bKind, bSite, Database, bContent, bChunks, dbFile, jsonFile>>
    /\ UNCHANGED otherThanBuild

CreateChunks ==
    /\ bPc = "chunk"
    /\ bPc' = IF bKind = "sqlite" THEN "meta" ELSE "save"
    /\ bChunks' = bChunks \o (IF bKind = "sqlite" THEN createChunks(bContent)
                              ELSE createChunksWithId(bContent))
    /\ UNCHANGED <<bKind, bSite, Database, bCalls, bContent, dbFile, jsonFile>>
    /\ UNCHANGED otherThanBuild

\* where generateEmbeddingsAndStore goes once `done` chunks have both rows
AfterStored(done) ==
    IF done >= Len(bChunks) THEN "index"
    ELSE IF done % BatchSize = 0 THEN "embed"
    ELSE "insertChunk"

\* generateEmbeddingsAndStore: one of the four INSERT INTO metadata
InsertMetadata ==
    /\ bPc = "meta"
    /\ Database = "class"
    /\ dbFile' = [dbFile EXCEPT !.meta = @ + 1]
    /\ bPc' = IF dbFile.meta + 1 < MetadataRows THEN "meta" ELSE AfterStored(0)
    /\ UNCHANGED <<bKind, bSite, Database, bCalls, bContent, bChunks, jsonFile>>
    /\ UNCHANGED otherThanBuild

\* await this.generateEmbeddings(texts) for one batch: the vectors of the
\* API or, when the call fails, zero vectors; the build goes on either way
GenerateEmbeddings ==
    /\ bPc = "embed"
    /\ Database = "class"
    /\ bPc' = "insertChunk"
    /\ UNCHANGED <<bKind, bSite, Database, bCalls, bContent, bChunks, dbFile, jsonFile>>
    /\ UNCHANGED otherThanBuild

\* insertChunk.run: the new row gets the next rowid of the fresh table
InsertChunkRow ==
    /\ bPc = "insertChunk"
    /\ Database = "class"
    /\ bPc' = "insertEmbedding"
    /\ dbFile' = [dbFile EXCEPT
                    !.rows = Append(@, ChunkRow(Len(@) + 1, bChunks[Len(@) + 1]))]
    /\ UNCHANGED <<bKind, bSite, Database, bCalls, bContent, bChunks, jsonFile>>
    /\ UNCHANGED otherThanBuild

\* insertEmbedding.run(result.lastInsertRowid, embeddingBlob)
InsertEmbeddingRow ==
    /\ bPc = "insertEmbedding"
    /\ Database = "class"
    /\ dbFile' = [dbFile EXCEPT !.embeddings = @ \cup {dbFile.rows[Len(dbFile.rows)].id}]
    /\ bPc' = AfterStored(Len(dbFile.rows))
    /\ UNCHANGED <<bKind, bSite, Database, bCalls, bContent, bChunks, jsonFile>>
    /\ UNCHANGED otherThanBuild

\* createIndexes: one of the five statements of db.exec, each committed on
\* its own: three CREATE INDEX, CREATE VIRTUAL TABLE chunks_fts, and the
\* INSERT that fills it
CreateIndexes ==
    /\ bPc = "index"
    /\ Database = "class"
    /\ dbFile' = IF dbFile.indexes < LookupIndexes
                 THEN [dbFile EXCEPT !.indexes = @ + 1]
                 ELSE IF dbFile.fts = "none" THEN [dbFile EXCEPT !.fts = "empty"]
                 ELSE [dbFile EXCEPT !.fts = "populated"]
    /\ bPc' = IF dbFile.indexes = LookupIndexes /\ dbFile.fts = "empty"
              THEN "done" ELSE "index"
    /\ UNCHANGED <<bKind, bSite, Database, bCalls, bContent, bChunks, jsonFile>>
    /\ UNCHANGED otherThanBuild

\* saveIndex: fs.writeFileSync(outputPath, JSON.stringify(index, null, 2))
\* opens the file at the index path for writing, which creates it or cuts an
\* existing one to no byte, and writes the string to it afterwards.  The
\* bytes reach the file from the front, a page at a time: before the file is
\* complete it may hold the start of the string, up to any of its chunks
\* (an index of one chunk or none is shorter than a page and written at once).
SaveIndex ==
    /\ bPc \in {"save", "write"}
    /\ \/ /\ bPc = "save"
          /\ bPc' = "write"
          /\ jsonFile' = [NoFile EXCEPT !.exists = TRUE, !.build = "new", !.json = "empty"]
       \/ /\ bPc = "write"
          /\ \E k \in (Len(jsonFile.chunks) + 1)..(Len(bChunks) - 1) :
                jsonFile' = [jsonFile EXCEPT !.json = "partial",
                                             !.chunks = SubSeq(bChunks, 1, k)]
          /\ bPc' = "write"
       \/ /\ bPc = "write"
          /\ bPc' = "done"
          /\ jsonFile' = [jsonFile EXCEPT !.json = "index", !.chunks = bChunks]
    /\ UNCHANGED <<bKind, bSite, Database, bCalls, bContent, bChunks, dbFile>>
    /\ UNCHANGED otherThanBuild

NextBuild ==
    \/ UnlinkExisting
    \/ NewDatabaseThrows
    \/ NewDatabase
    \/ CreateSchema
    \/ ProcessFile
    \/ ReadCompoundsDir
    \/ CreateChunks
    \/ InsertMetadata
    \/ GenerateEmbeddings
    \/ InsertChunkRow
    \/ InsertEmbeddingRow
    \/ CreateIndexes
    \/ SaveIndex

SpecBuild == InitBuild /\ [][NextBuild]_vars

-----------------------------------------------------------------------------
(* Properties of the build scripts *)

\* C19: at every moment of a rebuild the file at the index path is either
\* the complete previous index or the complete new one, never absent and
\* never partly written.
\* Stated for each step of a rebuild: a step that changes the complete
\* previous index leaves the complete new one.
C19_AtomicReplace ==
    [][(bKind = "sqlite" /\ dbFile = BuiltDb(PreviousSite, "previous")) =>
          (\/ dbFile' = BuiltDb(PreviousSite, "previous")
           \/ dbFile' = BuiltDb(bSite, "new"))]_vars

\* the same for rag-index.json (it does not hold either: between the steps
\* of fs.writeFileSync the file holds no byte, or the start of the index)
JsonIndexAtomicReplace ==
    [][(bKind = "json" /\ jsonFile = BuiltJson(PreviousSite, "previous")) =>
          (\/ jsonFile' = BuiltJson(PreviousSite, "previous")
           \/ jsonFile' = BuiltJson(bSite, "new"))]_vars

\* rag-index.json is at the index path, neither empty nor the whole index
JsonIndexPartlyWritten ==
    /\ jsonFile.exists
    /\ jsonFile.json = "partial"
    /\ jsonFile.chunks # <<>>
    /\ Len(jsonFile.chunks) < Len(bChunks)

\* the rows of rag.sqlite are numbered 1, 2, ... in insertion order
SqliteRowIdsUnique ==
    \A i \in 1..Len(dbFile.rows) : dbFile.rows[i].id = i

\* C20: no two chunks of one build carry the same id, in rag.sqlite and in
\* rag-index.json, also when two sections of a page have the same heading.
C20_ChunkIdsUnique ==
    /\ \A i, j \in 1..Len(dbFile.rows) :
          dbFile.rows[i].id = dbFile.rows[j].id => i = j
    /\ \A i, j \in 1..Len(bChunks) :
          (bKind = "json" /\ bChunks[i].id = bChunks[j].id) => i = j
    /\ \A i, j \in 1..Len(jsonFile.chunks) :
          jsonFile.chunks[i].id = jsonFile.chunks[j].id => i = j

\* processFile has run for every file of the site
FilesProcessed ==
    bPc \notin {"idle", "unlink", "schema", "tables", "process", "readdir", "compounds", "failed"}

\* createChunks has run
ChunksCreated == FilesProcessed /\ bPc # "chunk"

\* C21: a file whose content region is empty is recorded in this.content as
\* a page with empty text, no sections and wordCount 0, and no chunk of the
\* build comes from it.
C21_EmptyPageRecorded ==
    \A k \in 1..Len(bSite.files) :
        (FilesProcessed /\ extractContent(bSite.files[k]).text = <<>>) =>
            /\ \E p \in 1..Len(bContent) :
                  /\ bContent[p].filePath = bSite.files[k].filePath
                  /\ bContent[p].text = <<>>
                  /\ bContent[p].sections = <<>>
                  /\ bContent[p].wordCount = 0
            /\ \A c \in 1..Len(bChunks) : bChunks[c].pageUrl # bSite.files[k].filePath

\* what does hold: the file is skipped and the build runs to its end
EmptyPageSkipped ==
    \A k \in 1..Len(bSite.files) :
        (FilesProcessed /\ extractContent(bSite.files[k]).text = <<>>) =>
            /\ \A p \in 1..Len(bContent) : bContent[p].filePath # bSite.files[k].filePath
            /\ \A c \in 1..Len(bChunks) : bChunks[c].pageUrl # bSite.files[k].filePath
            /\ extractContent(bSite.files[k]).wordCount = 1

\* this.chunks holds a chunk of the page with this text and heading
HasChunk(page, isSection, heading, text) ==
    \E c \in 1..Len(bChunks) :
        /\ bChunks[c].pageUrl = page.url
        /\ bChunks[c].isSection = isSection
        /\ bChunks[c].sectionHeading = heading
        /\ bChunks[c].text = text

\* the chunks of the page's full text are in this.chunks
PageTextChunked(page) ==
    \A i \in 1..Len(chunkText(page.text, PageChunkSize)) :
        HasChunk(page, FALSE, "", chunkText(page.text, PageChunkSize)[i])

\* the chunks of the section's text are in this.chunks under its heading
SectionChunked(page, section) ==
    \A i \in 1..Len(chunkText(section.text, SectionChunkSize)) :
        HasChunk(page, TRUE, section.heading,
                 chunkText(section.text, SectionChunkSize)[i])

\* C25: after createChunks, this.chunks holds for every page of
\* this.content the chunks of its full text (target 500) and, for every
\* section extractSections retained (text longer than 50), the chunks of the
\* section's text (target 400) with the section's heading.
C25_PageAndSectionChunks ==
    ChunksCreated =>
        \A p \in 1..Len(bContent) :
            /\ PageTextChunked(bContent[p])
            /\ \A k \in 1..Len(bContent[p].sections) :
                  SectionChunked(bContent[p], bContent[p].sections[k])

\* what does hold: the page texts, and the sections longer than 100
LongSectionsChunked ==
    ChunksCreated =>
        \A p \in 1..Len(bContent) :
            /\ PageTextChunked(bContent[p])
            /\ \A k \in 1..Len(bContent[p].sections) :
                  Len(bContent[p].sections[k].text) > MinSectionChunked
                      => SectionChunked(bContent[p], bContent[p].sections[k])

-----------------------------------------------------------------------------
(* Step 1 of generateResponse on its own: findRelevantChunks and the        *)
(* assembly of contextText.  SpecRetrieve starts from a widget state, a     *)
(* query and what db.exec will do; SpecContext starts after the search,     *)
(* from the rows it returned, with chunk texts of the sizes the build       *)
(* scripts produce.                                                         *)

IndexRow(id, title, heading, text) ==
    [id |-> id, page_title |-> title, section_heading |-> heading,
     chunk_text |-> text, word_count |-> Len(text)]

\* rows of an index: five chunks near the page target of 500 characters
\* and a short one
LargeIndexRows ==
    << IndexRow(1, "Main Article", "", <<"flavor", Word("a", 470)>>),
       IndexRow(2, "Main Article", "Safety", <<"flavor", Word("b", 380)>>),
       IndexRow(3, "About Terpedia", "", <<"flavor", Word("c", 480)>>),
       IndexRow(4, "", "", <<"flavor", Word("d", 490)>>),
       IndexRow(5, "All Compounds", "Overview", <<"flavor", Word("e", 460)>>),
       IndexRow(6, "Cinnamon Roll", "", <<"flavor", Word("f", 50)>>) >>

\* the results a LIMIT topK query can give: up to topK different rows
RECURSIVE ResultsOf(_, _)
ResultsOf(rows, n) ==
    IF n = 0 THEN { <<>> }
    ELSE ResultsOf(rows, n - 1)
         \cup { Append(res, rows[i]) :
                  res \in { r \in ResultsOf(rows, n - 1) : Len(r) = n - 1 },
                  i \in 1..Len(rows) }

DistinctRows(res) == \A i, j \in 1..Len(res) : res[i].id = res[j].id => i = j

InitContext ==
    /\ WidgetIdle
    /\ ChunkIdle
    /\ ScoreIdle
    /\ BuildIdle
    /\ rPc = "found"
    /\ rInit = TRUE
    /\ rDb = [open |-> TRUE, rows |-> LargeIndexRows]
    /\ rQuery = <<"what", "is", "flavor">>
    /\ rEx = [fts |-> "rows", kw |-> "rows", order |-> [i \in 1..Len(IndexRows) |-> i]]
    /\ rChunks \in { res \in ResultsOf(LargeIndexRows, TopK) : DistinctRows(res) }
    /\ rThrew = FALSE
    /\ rContextText = ""

\* generateResponse: if (relevantChunks.length > 0) contextText = ...
AssembleContext ==
    /\ rPc = "found"
    /\ rPc' = "assembled"
    /\ rContextText' = IF Len(rChunks) > 0 THEN ContextText(rChunks) ELSE ""
    /\ UNCHANGED <<rInit, rDb, rQuery, rEx, rChunks, rThrew>>
    /\ UNCHANGED otherThanRetrieve

\* queries with long and short tokens, with short tokens only, with capitals
RetrievalQueries ==
    { <<"what", "is", "flavor">>,
      <<"is", "it">>,
      <<"of">>,
      <<"is", "Terpene", "of">>,
      <<"xyzzyplugh", "nonsense", "query">> }

InitRetrieve ==
    /\ WidgetIdle
    /\ ChunkIdle
    /\ ScoreIdle
    /\ BuildIdle
    /\ rPc = "input"
    /\ rInit \in BOOLEAN
    /\ rDb \in {NullDb, [open |-> TRUE, rows |-> IndexRows]}
    /\ rQuery \in RetrievalQueries
    /\ rEx \in DbExecs
    /\ rChunks = <<>>
    /\ rThrew = FALSE
    /\ rContextText = ""

\* await this.findRelevantChunks(userMessage, 5)
FindRelevantChunks ==
    /\ rPc = "input"
    /\ rPc' = "found"
    /\ LET outcome == findRelevantChunksTry(rInit, rDb, rQuery, TopK, rEx)
       IN  /\ rChunks' = outcome.rows
           /\ rThrew' = outcome.threw
    /\ UNCHANGED <<rInit, rDb, rQuery, rEx, rContextText>>
    /\ UNCHANGED otherThanRetrieve

NextRetrieve ==
    \/ FindRelevantChunks
    \/ AssembleContext

SpecRetrieve == InitRetrieve /\ [][NextRetrieve]_vars

NextContext == AssembleContext

SpecContext == InitContext /\ [][NextContext]_vars

RECURSIVE EntriesLength(_)
EntriesLength(chunks) ==
    IF chunks = <<>> THEN 0
    ELSE Len(TextOf(chunks[1].chunk_text)) + 1 + Len(SourceLabel(chunks[1]))
         + EntriesLength(Tail(chunks))

\* what does hold: every retrieved chunk is in contextText in full, so its
\* length is that of the entries and of the separators between them
ContextTextIsUncut ==
    (rPc = "assembled" /\ Len(rChunks) > 0) =>
        Len(rContextText) = EntriesLength(rChunks) + 7 * (Len(rChunks) - 1)

\* C22: the contextText that generateResponse hands to callTerpediaAPI, and
\* that callTerpediaAPI sends as rag_context, has at most 2000 characters.
C22_ContextLengthBounded ==
    rPc = "assembled" => Len(rContextText) <= 2000

\* findRelevantChunks has returned or thrown
Searched == rPc \in {"found", "assembled"}

\* C26: findRelevantChunks does not throw; when the FTS5 search raises it
\* returns what the keyword search returns, and the empty list when that
\* raises too.
C26_RetrievalNeverThrows ==
    Searched =>
        /\ ~rThrew
        /\ (rInit /\ rDb.open /\ findWithFTS5(rDb, rQuery, TopK, rEx).threw) =>
              rChunks = IF findWithKeywords(rDb, rQuery, TopK, rEx).threw THEN <<>>
                        ELSE findWithKeywords(rDb, rQuery, TopK, rEx).rows

C26_Witness ==
    /\ Searched
    /\ rInit /\ rDb.open
    /\ findWithFTS5(rDb, rQuery, TopK, rEx).threw
    /\ findWithKeywords(rDb, rQuery, TopK, rEx).threw
    /\ rChunks = <<>>

\* the tokens of a query that are longer than two characters
LongTokens(query) == SelectSeq(query, LAMBDA w : Len(w) > 2)

\* C27: tokens of at most two characters play no part in retrieval: the
\* result is that of the query without them, and the empty list when the
\* query has no other token, on the FTS5 and on the keyword path.
C27_ShortTokensExcluded ==
    Searched =>
        /\ rChunks = findRelevantChunks(rInit, rDb, LongTokens(rQuery), TopK, rEx)
        /\ LongTokens(rQuery) = <<>> => rChunks = <<>>

C27_Witness ==
    /\ Searched
    /\ rInit /\ rDb.open
    /\ rEx.kw = "rows"
    /\ LongTokens(rQuery) = <<>>
    /\ \E i \in 1..Len(rDb.rows) : \E k \in 1..Len(rQuery) :
          FtsMatch(rDb.rows[i].chunk_text, <<rQuery[k]>>)
    /\ rChunks = <<>>

-----------------------------------------------------------------------------
(* Further properties of the widget: the endpoint loop, the restored        *)
(* history and the persisted history                                        *)

\* the request is at endpoint e of this.apiEndpoints, its fetch in flight
Contacting(rq, e) == rq.pc = "fetch" /\ rq.endpoint = e

\* C28: a request contacts the first endpoint first and after that only the
\* endpoint next in the list, one at a time; it ends with an answer in the
\* step in which an endpoint answers, contacting no endpoint afterwards, and
\* it ends with all endpoints failed only in a step in which the last
\* endpoint fails.
C28_EndpointsInOrder ==
    [][\A r \in 1..Len(reqs') :
          IF r > Len(reqs)
          THEN reqs'[r].pc = "fetch" => Contacting(reqs'[r], 1)
          ELSE /\ (reqs[r].pc = "fetch" /\ reqs'[r].pc = "fetch") =>
                     \/ reqs'[r].endpoint = reqs[r].endpoint
                     \/ reqs'[r].endpoint = reqs[r].endpoint + 1
               /\ reqs[r].pc # "fetch" => reqs'[r].pc # "fetch"
               /\ (reqs[r].pc = "fetch" /\ reqs'[r].pc = "done" /\ reqs'[r].allFailed)
                     => Contacting(reqs[r], NumEndpoints)
               /\ (reqs[r].pc = "fetch" /\ reqs'[r].pc = "done" /\ ~reqs'[r].allFailed)
                     => \E data \in ResponseBodies(reqs[r].query) :
                           /\ ~HandleResponseFormats(data).threw
                           /\ reqs'[r].result = "returned"
                           /\ reqs'[r].answer = HandleResponseFormats(data).value
      ]_vars

C28_Witness ==
    \E r, q \in 1..Len(reqs) :
        /\ Done(r) /\ reqs[r].allFailed
        /\ Contacting(reqs[q], 2)

IsPrefix(a, b) == Len(a) <= Len(b) /\ SubSeq(b, 1, Len(a)) = a

\* C29: until init() has restored the history no sendMessage has run, so
\* the message list is still empty when loadChatHistory replaces it, and no
\* step of the widget ever removes a message from the list.
C29_RestoreKeepsSession ==
    /\ [](loadPc # "done" => (messages = <<>> /\ reqs = <<>>))
    /\ [](loadPc \notin {"history", "done"} => inputDisabled)
    /\ [][IsPrefix(messages, messages')]_vars

C29_Witness ==
    /\ loadPc = "done"
    /\ \E r \in 1..Len(reqs) : Done(r) /\ reqs[r].ui = "success"
    /\ Len(messages) = Len(EarlierSession) + 2
    /\ SubSeq(messages, 1, Len(EarlierSession)) = EarlierSession

\* this step is the end of sendMessage invocation r
Ends(r) == reqs[r].pc = "fetch" /\ reqs'[r].pc = "done"

\* C30 as stated: the stored history changes only in a step that ends a send
\* on the success path, and is then the in-memory list; a step that ends a
\* send on the error path appends the error message to the in-memory list,
\* which already holds the user message, and leaves the stored history as it
\* was.
C30_SavedOnSuccessOnly ==
    [][/\ stored' # stored =>
             \E r \in 1..Len(reqs) : Ends(r) /\ reqs'[r].ui = "success"
       /\ \A r \in 1..Len(reqs) :
             Ends(r) =>
                 IF reqs'[r].ui = "success"
                 THEN stored' = SavedList(messages')
                 ELSE /\ stored' = stored
                      /\ Len(messages') = Len(messages) + 1
                      /\ messages'[Len(messages')].role = "assistant"
                      /\ \E k \in 1..Len(messages) :
                            messages[k] = [role |-> "user",
                                           content |-> Str(reqs[r].query)]
      ]_vars

\* C30 amended: as stated, except that a send on the success path in whose
\* saveChatHistory localStorage.setItem throws leaves the stored history as
\* it was; the stored history is the in-memory list after a successful send
\* whose setItem call returned.
C30_SavedUnlessSetItemThrows ==
    [][/\ stored' # stored =>
             \E r \in 1..Len(reqs) :
                 Ends(r) /\ reqs'[r].ui = "success" /\ reqs'[r].setItem = "stored"
       /\ \A r \in 1..Len(reqs) :
             Ends(r) =>
                 IF reqs'[r].ui = "success"
                 THEN /\ reqs'[r].setItem \in {"stored", "threw"}
                      /\ reqs'[r].setItem = "stored" => stored' = SavedList(messages')
                      /\ reqs'[r].setItem = "threw" => stored' = stored
                 ELSE /\ reqs'[r].setItem = "none"
                      /\ stored' = stored
                      /\ Len(messages') = Len(messages) + 1
                      /\ messages'[Len(messages')].role = "assistant"
                      /\ \E k \in 1..Len(messages) :
                            messages[k] = [role |-> "user",
                                           content |-> Str(reqs[r].query)]
      ]_vars

\* an error-path send followed by a successful one whose setItem call returned
C30_Witness ==
    \E r, q \in 1..Len(reqs) :
        /\ r < q
        /\ Done(r) /\ reqs[r].ui = "error"
        /\ Done(q) /\ reqs[q].ui = "success" /\ reqs[q].setItem = "stored"
        /\ stored = SavedList(messages)
        /\ \E k \in 1..Len(messages) :
              /\ messages[k].role = "assistant"
              /\ messages[k].content = ErrorMessage(AllFailedError)

\* a successful send whose setItem call threw: the stored history is behind
\* the in-memory list
StaleAfterSuccess ==
    \E q \in 1..Len(reqs) :
        /\ Done(q) /\ reqs[q].ui = "success" /\ reqs[q].setItem = "threw"
        /\ stored # SavedList(messages)

====
